---- MODULE Spec2Model ----
(***************************************************************************)
(* Graph execution engine of nodeflow: TopologicalSort, GraphValidator,    *)
(* ExecutionContext and GraphExecutor, modelled as a state machine.        *)
(***************************************************************************)
EXTENDS Integers, Sequences, FiniteSets, TLC

(***************************************************************************)
(* Bounds of the model.                                                    *)
(***************************************************************************)
MaxNodes == 3
MaxEdges == 2
MaxSortEdges == 3

NodeIds == {"A", "B", "C"}

\* The value of an absent optional field (undefined / '' / null in the source).
None == "<none>"

\* Sequences over S of length at most n.
BSeq(S, n) == UNION {[1..k -> S] : k \in 0..n}

Range(s) == {s[i] : i \in 1..Len(s)}

\* Array.prototype.indexOf, 0 when absent.
IndexOf(s, x) ==
  IF \E i \in 1..Len(s) : s[i] = x
    THEN CHOOSE i \in 1..Len(s) : s[i] = x /\ \A j \in 1..(i - 1) : s[j] # x
    ELSE 0

\* Array.prototype.splice(index, 1).
RemoveAt(s, i) == [j \in 1..(Len(s) - 1) |-> IF j < i THEN s[j] ELSE s[j + 1]]

(***************************************************************************)
(* Nodes and edges (reactflow Node / Edge, the fields the engine reads).   *)
(***************************************************************************)
\* node.data: the port metadata the validator reads (data.inputs / data.outputs,
\* each either undefined or a list of named ports).
NoPorts == [hasInputs |-> FALSE, inputs |-> {}, hasOutputs |-> FALSE, outputs |-> {}]

MkNode(id, type) == [id |-> id, type |-> type, data |-> NoPorts]

MkEdge(source, target) ==
  [source |-> source, target |-> target, sourceHandle |-> None, targetHandle |-> None]

\* Node types: "source" has a registered handler, "sink" has none, None is a
\* node without a type.
TypeOf(id) == IF id = "B" THEN "sink" ELSE "source"

NodePool == {MkNode(id, TypeOf(id)) : id \in NodeIds} \cup {MkNode("C", None)}

EdgePool == {MkEdge(s, t) : s \in NodeIds, t \in NodeIds}

Ids(nodes) == [i \in 1..Len(nodes) |-> nodes[i].id]

IdSet(nodes) == {nodes[i].id : i \in 1..Len(nodes)}

(***************************************************************************)
(* TopologicalSort.sort: Kahn's algorithm over JavaScript Maps, which      *)
(* iterate in insertion order.                                             *)
(***************************************************************************)

\* Keys of a Map after set() of each element of ks in turn: first occurrences.
RECURSIVE InsertionOrder(_)
InsertionOrder(ks) ==
  IF ks = <<>> THEN <<>>
  ELSE LET front == InsertionOrder(SubSeq(ks, 1, Len(ks) - 1))
           k == ks[Len(ks)]
       IN IF k \in Range(front) THEN front ELSE Append(front, k)

\* nodeMap: the last node set for each id.
NodeMapOf(nodes) ==
  [id \in IdSet(nodes) |->
     nodes[CHOOSE i \in 1..Len(nodes) :
             nodes[i].id = id /\ \A j \in (i + 1)..Len(nodes) : nodes[j].id # id]]

\* adjacencyList: for each node id, the targets of its edges in edge order;
\* an edge whose source is no node is skipped (get(sourceId)?.push).
RECURSIVE Targets(_, _)
Targets(edges, id) ==
  IF edges = <<>> THEN <<>>
  ELSE LET rest == Targets(Tail(edges), id)
       IN IF Head(edges).source = id THEN <<Head(edges).target>> \o rest ELSE rest

AdjacencyOf(nodes, edges) == [id \in IdSet(nodes) |-> Targets(edges, id)]

\* inDegree: 0 for each node, plus one per edge into the key; a target that is
\* no node is inserted by the edge loop, after the nodes.
InDegreeKeys(nodes, edges) ==
  InsertionOrder(Ids(nodes) \o [i \in 1..Len(edges) |-> edges[i].target])

InDegreeOf(nodes, edges) ==
  [id \in Range(InDegreeKeys(nodes, edges)) |->
     Cardinality({i \in 1..Len(edges) : edges[i].target = id})]

\* ProcessNeighbors enqueuing a neighbour at its first decrement, whatever is left
\* of its in-degree.
RECURSIVE ProcessNeighbors_EnqueueEarly(_, _, _, _)
ProcessNeighbors_EnqueueEarly(neighbors, level, inDegree, queue) ==
  IF neighbors = <<>> THEN [inDegree |-> inDegree, queue |-> queue]
  ELSE LET n == Head(neighbors)
           newInDegree == inDegree[n] - 1
       IN ProcessNeighbors_EnqueueEarly(
            Tail(neighbors), level,
            [inDegree EXCEPT ![n] = -1],
            IF inDegree[n] > 0 THEN Append(queue, [id |-> n, level |-> level + 1])
                               ELSE queue)

\* ProcessNeighbors enqueuing a neighbour at the level of the node it follows.
RECURSIVE ProcessNeighbors_SameLevel(_, _, _, _)
ProcessNeighbors_SameLevel(neighbors, level, inDegree, queue) ==
  IF neighbors = <<>> THEN [inDegree |-> inDegree, queue |-> queue]
  ELSE LET n == Head(neighbors)
           newInDegree == inDegree[n] - 1
       IN ProcessNeighbors_SameLevel(
            Tail(neighbors), level,
            [inDegree EXCEPT ![n] = newInDegree],
            IF newInDegree = 0 THEN Append(queue, [id |-> n, level |-> level])
                               ELSE queue)

\* neighbors.forEach: decrement, and enqueue at level + 1 on reaching 0.
RECURSIVE ProcessNeighbors(_, _, _, _)
ProcessNeighbors(neighbors, level, inDegree, queue) ==
  IF neighbors = <<>> THEN [inDegree |-> inDegree, queue |-> queue]
  ELSE LET n == Head(neighbors)
           newInDegree == inDegree[n] - 1
       IN ProcessNeighbors(
            Tail(neighbors), level,
            [inDegree EXCEPT ![n] = newInDegree],
            IF newInDegree = 0 THEN Append(queue, [id |-> n, level |-> level + 1])
                               ELSE queue)

\* A loop that hands level 0 to every neighbor, whatever the level of the node
\* taken from the queue.
RECURSIVE KahnLoop_FlatLevels(_, _, _, _, _)
KahnLoop_FlatLevels(queue, inDegree, result, adjacencyList, nodeMap) ==
  IF queue = <<>> THEN result
  ELSE LET cur == Head(queue)
           result1 == IF cur.id \in DOMAIN nodeMap
                        THEN Append(result, [node |-> nodeMap[cur.id], level |-> cur.level])
                        ELSE result
           neighbors == IF cur.id \in DOMAIN adjacencyList
                          THEN adjacencyList[cur.id] ELSE <<>>
           next == ProcessNeighbors(neighbors, 0, inDegree, Tail(queue))
       IN KahnLoop_FlatLevels(next.queue, next.inDegree, result1, adjacencyList, nodeMap)

\* while (queue.length > 0)
RECURSIVE KahnLoop(_, _, _, _, _)
KahnLoop(queue, inDegree, result, adjacencyList, nodeMap) ==
  IF queue = <<>> THEN result
  ELSE LET cur == Head(queue)
           result1 == IF cur.id \in DOMAIN nodeMap
                        THEN Append(result, [node |-> nodeMap[cur.id], level |-> cur.level])
                        ELSE result
           neighbors == IF cur.id \in DOMAIN adjacencyList
                          THEN adjacencyList[cur.id] ELSE <<>>
           next == ProcessNeighbors(neighbors, cur.level, inDegree, Tail(queue))
       IN KahnLoop(next.queue, next.inDegree, result1, adjacencyList, nodeMap)

\* The queue seeded by inDegree.forEach: the keys of degree 0, in map order.
SeedQueue(keys, inDegree) ==
  LET zero == SelectSeq(keys, LAMBDA k : inDegree[k] = 0)
  IN [i \in 1..Len(zero) |-> [id |-> zero[i], level |-> 0]]

sort(nodes, edges) ==
  LET inDegree == InDegreeOf(nodes, edges)
  IN KahnLoop(SeedQueue(InDegreeKeys(nodes, edges), inDegree), inDegree, <<>>,
              AdjacencyOf(nodes, edges), NodeMapOf(nodes))

\* getExecutionOrder listing the ids from last to first.
getExecutionOrder_Reversed(sorted) ==
  [i \in 1..Len(sorted) |-> sorted[Len(sorted) + 1 - i].node.id]

getExecutionOrder(sortedNodes) ==
  [i \in 1..Len(sortedNodes) |-> sortedNodes[i].node.id]

\* groupByLevel: for each level that occurs, its nodes in the order of the
\* sorted list.
groupByLevel(sortedNodes) ==
  [level \in {sortedNodes[i].level : i \in 1..Len(sortedNodes)} |->
     LET at == SelectSeq(sortedNodes, LAMBDA sn : sn.level = level)
     IN [i \in 1..Len(at) |-> at[i].node]]

(***************************************************************************)
(* GraphValidator.                                                         *)
(***************************************************************************)
ValidationError(code, ref) == [code |-> code, ref |-> ref]

\* validateNodeConfig: no checks yet.
validateNodeConfig(node) == <<>>

\* A validateNode whose duplicate check counts the node itself.
validateNode_CountsItself(node, nodes) ==
  (IF node.id = None THEN <<ValidationError("NODE_MISSING_ID", <<node.id>>)>> ELSE <<>>)
  \o (IF node.type = None THEN <<ValidationError("NODE_MISSING_TYPE", <<node.id>>)>> ELSE <<>>)
  \o (IF Cardinality({i \in 1..Len(nodes) : nodes[i].id = node.id}) >= 1
        THEN <<ValidationError("NODE_DUPLICATE_ID", <<node.id>>)>> ELSE <<>>)
  \o validateNodeConfig(node)

validateNode(node, nodes) ==
  (IF node.id = None THEN <<ValidationError("NODE_MISSING_ID", <<node.id>>)>> ELSE <<>>)
  \o (IF node.type = None THEN <<ValidationError("NODE_MISSING_TYPE", <<node.id>>)>> ELSE <<>>)
  \o (IF Cardinality({i \in 1..Len(nodes) : nodes[i].id = node.id}) > 1
        THEN <<ValidationError("NODE_DUPLICATE_ID", <<node.id>>)>> ELSE <<>>)
  \o validateNodeConfig(node)

\* graph.nodes.find(n => n.id === id): the first such node, as a 0/1 sequence.
FindNode(nodes, id) ==
  LET i == IndexOf(Ids(nodes), id) IN IF i = 0 THEN <<>> ELSE <<nodes[i]>>

\* A validateEdge without the lookup of the target node.
validateEdge_NoTargetLookup(edge, nodes) ==
  LET sourceNode == FindNode(nodes, edge.source)
      hasOutputPort == /\ sourceNode # <<>>
                       /\ sourceNode[1].data.hasOutputs
                       /\ edge.sourceHandle \in sourceNode[1].data.outputs
  IN (IF edge.source = None
        THEN <<ValidationError("EDGE_MISSING_SOURCE", <<edge.source, edge.target>>)>> ELSE <<>>)
     \o (IF edge.target = None
           THEN <<ValidationError("EDGE_MISSING_TARGET", <<edge.source, edge.target>>)>> ELSE <<>>)
     \o (IF sourceNode = <<>>
           THEN <<ValidationError("EDGE_SOURCE_NOT_FOUND", <<edge.source>>)>> ELSE <<>>)
     \o (IF edge.sourceHandle # None /\ sourceNode # <<>> /\ ~hasOutputPort
           THEN <<ValidationError("EDGE_INVALID_SOURCE_PORT", <<edge.sourceHandle>>)>> ELSE <<>>)

validateEdge(edge, nodes) ==
  LET sourceNode == FindNode(nodes, edge.source)
      targetNode == FindNode(nodes, edge.target)
      hasOutputPort == /\ sourceNode # <<>>
                       /\ sourceNode[1].data.hasOutputs
                       /\ edge.sourceHandle \in sourceNode[1].data.outputs
      hasInputPort == /\ targetNode # <<>>
                      /\ targetNode[1].data.hasInputs
                      /\ edge.targetHandle \in targetNode[1].data.inputs
  IN (IF edge.source = None
        THEN <<ValidationError("EDGE_MISSING_SOURCE", <<edge.source, edge.target>>)>> ELSE <<>>)
     \o (IF edge.target = None
           THEN <<ValidationError("EDGE_MISSING_TARGET", <<edge.source, edge.target>>)>> ELSE <<>>)
     \o (IF sourceNode = <<>>
           THEN <<ValidationError("EDGE_SOURCE_NOT_FOUND", <<edge.source>>)>> ELSE <<>>)
     \o (IF targetNode = <<>>
           THEN <<ValidationError("EDGE_TARGET_NOT_FOUND", <<edge.target>>)>> ELSE <<>>)
     \o (IF edge.sourceHandle # None /\ sourceNode # <<>> /\ ~hasOutputPort
           THEN <<ValidationError("EDGE_INVALID_SOURCE_PORT", <<edge.sourceHandle>>)>> ELSE <<>>)
     \o (IF edge.targetHandle # None /\ targetNode # <<>> /\ ~hasInputPort
           THEN <<ValidationError("EDGE_INVALID_TARGET_PORT", <<edge.targetHandle>>)>> ELSE <<>>)

\* detectCycles: depth-first search with a recursion stack; st is the closure
\* state [visited, recursionStack, path].
RECURSIVE dfs(_, _, _)
RECURSIVE DfsOutgoing(_, _, _, _)

\* A loop over the outgoing edges that takes every visited target for a cycle,
\* without looking at the recursion stack.
DfsOutgoing_AnyVisitedIsCycle(nodeId, outgoing, es, st) ==
  IF outgoing = <<>>
    THEN [found |-> FALSE,
          st |-> [visited |-> st.visited,
                  recursionStack |-> st.recursionStack \ {nodeId},
                  path |-> SubSeq(st.path, 1, Len(st.path) - 1)]]
  ELSE LET targetId == Head(outgoing).target
       IN IF targetId \notin st.visited
            THEN LET r == dfs(targetId, es, st)
                 IN IF r.found THEN r
                    ELSE DfsOutgoing(nodeId, Tail(outgoing), es, r.st)
          ELSE [found |-> TRUE, st |-> [st EXCEPT !.path = Append(st.path, targetId)]]

dfs(nodeId, edges, st) ==
  LET st1 == [visited |-> st.visited \cup {nodeId},
              recursionStack |-> st.recursionStack \cup {nodeId},
              path |-> Append(st.path, nodeId)]
      outgoingEdges == SelectSeq(edges, LAMBDA e : e.source = nodeId)
  IN DfsOutgoing(nodeId, outgoingEdges, edges, st1)

DfsOutgoing(nodeId, outgoing, edges, st) ==
  IF outgoing = <<>>
    THEN [found |-> FALSE,
          st |-> [visited |-> st.visited,
                  recursionStack |-> st.recursionStack \ {nodeId},
                  path |-> SubSeq(st.path, 1, Len(st.path) - 1)]]
  ELSE LET targetId == Head(outgoing).target
       IN IF targetId \notin st.visited
            THEN LET r == dfs(targetId, edges, st)
                 IN IF r.found THEN r
                    ELSE DfsOutgoing(nodeId, Tail(outgoing), edges, r.st)
          ELSE IF targetId \in st.recursionStack
            THEN [found |-> TRUE, st |-> [st EXCEPT !.path = Append(st.path, targetId)]]
          ELSE DfsOutgoing(nodeId, Tail(outgoing), edges, st)

RECURSIVE DetectFrom(_, _, _, _)
DetectFrom(nodes, i, edges, st) ==
  IF i > Len(nodes) THEN [hasCycle |-> FALSE, cycle |-> <<>>]
  ELSE IF nodes[i].id \in st.visited THEN DetectFrom(nodes, i + 1, edges, st)
  ELSE LET r == dfs(nodes[i].id, edges, st)
       IN IF r.found THEN [hasCycle |-> TRUE, cycle |-> r.st.path]
          ELSE DetectFrom(nodes, i + 1, edges, r.st)

detectCycles(nodes, edges) ==
  DetectFrom(nodes, 1, edges, [visited |-> {}, recursionStack |-> {}, path |-> <<>>])

findDisconnectedNodes(nodes, edges) ==
  SelectSeq(nodes, LAMBDA n :
    /\ ~\E i \in 1..Len(edges) : edges[i].target = n.id
    /\ ~\E i \in 1..Len(edges) : edges[i].source = n.id)

\* for (const node of graph.nodes) errors.push(...this.validateNode(node, graph))
RECURSIVE NodeErrors(_, _)
NodeErrors(rest, nodes) ==
  IF rest = <<>> THEN <<>>
  ELSE validateNode(Head(rest), nodes) \o NodeErrors(Tail(rest), nodes)

\* for (const edge of graph.edges) errors.push(...this.validateEdge(edge, graph))
RECURSIVE EdgeErrors(_, _)
EdgeErrors(rest, nodes) ==
  IF rest = <<>> THEN <<>>
  ELSE validateEdge(Head(rest), nodes) \o EdgeErrors(Tail(rest), nodes)

\* A validateGraph in which warnings count against validity.
validateGraph_WarningsInvalidate(ns, es) ==
  IF Len(ns) = 0
    THEN [valid |-> FALSE,
          errors |-> <<ValidationError("GRAPH_EMPTY", <<>>)>>,
          warnings |-> <<>>]
  ELSE LET cycleResult == detectCycles(ns, es)
           errors == NodeErrors(ns, ns) \o EdgeErrors(es, ns)
                     \o (IF cycleResult.hasCycle
                           THEN <<ValidationError("GRAPH_CYCLE_DETECTED", cycleResult.cycle)>>
                           ELSE <<>>)
           disconnected == findDisconnectedNodes(ns, es)
           sourceNodes == SelectSeq(ns, LAMBDA n :
                            ~\E i \in 1..Len(es) : es[i].target = n.id)
           warnings ==
             (IF Len(disconnected) > 0
                THEN <<[kind |-> "disconnected", ids |-> Ids(disconnected)]>> ELSE <<>>)
             \o (IF Len(sourceNodes) = 0
                   THEN <<[kind |-> "noSourceNodes", ids |-> <<>>]>> ELSE <<>>)
       IN [valid |-> Len(errors) = 0 /\ Len(warnings) = 0,
           errors |-> errors, warnings |-> warnings]

\* A validateGraph that returns at the first group of checks that found errors.
validateGraph_StopsAtFirstErrors(ns, es) ==
  IF Len(ns) = 0
    THEN [valid |-> FALSE,
          errors |-> <<ValidationError("GRAPH_EMPTY", <<>>)>>,
          warnings |-> <<>>]
  ELSE IF NodeErrors(ns, ns) # <<>>
    THEN [valid |-> FALSE, errors |-> NodeErrors(ns, ns), warnings |-> <<>>]
  ELSE IF EdgeErrors(es, ns) # <<>>
    THEN [valid |-> FALSE, errors |-> EdgeErrors(es, ns), warnings |-> <<>>]
  ELSE LET cycleResult == detectCycles(ns, es)
           errors == IF cycleResult.hasCycle
                       THEN <<ValidationError("GRAPH_CYCLE_DETECTED", cycleResult.cycle)>>
                       ELSE <<>>
       IN [valid |-> Len(errors) = 0, errors |-> errors, warnings |-> <<>>]

validateGraph(nodes, edges) ==
  IF Len(nodes) = 0
    THEN [valid |-> FALSE,
          errors |-> <<ValidationError("GRAPH_EMPTY", <<>>)>>,
          warnings |-> <<>>]
  ELSE LET nodeErrors == NodeErrors(nodes, nodes)
           edgeErrors == EdgeErrors(edges, nodes)
           cycleResult == detectCycles(nodes, edges)
           cycleErrors == IF cycleResult.hasCycle
                            THEN <<ValidationError("GRAPH_CYCLE_DETECTED", cycleResult.cycle)>>
                            ELSE <<>>
           errors == nodeErrors \o edgeErrors \o cycleErrors
           disconnected == findDisconnectedNodes(nodes, edges)
           sourceNodes == SelectSeq(nodes, LAMBDA n :
                            ~\E i \in 1..Len(edges) : edges[i].target = n.id)
           warnings ==
             (IF Len(disconnected) > 0
                THEN <<[kind |-> "disconnected", ids |-> Ids(disconnected)]>> ELSE <<>>)
             \o (IF Len(sourceNodes) = 0
                   THEN <<[kind |-> "noSourceNodes", ids |-> <<>>]>> ELSE <<>>)
       IN [valid |-> Len(errors) = 0, errors |-> errors, warnings |-> warnings]

\* A validate that accepts every graph.
validate_AcceptsAll(ns, es) == [valid |-> TRUE, errors |-> <<>>, warnings |-> <<>>]

\* GraphValidator.validate(nodes, edges), as GraphExecutor.execute calls it: the
\* validation of the graph made of the two collections.
validate(nodes, edges) == validateGraph(nodes, edges)

(***************************************************************************)
(* ExecutionContext.                                                       *)
(***************************************************************************)
EmptyMap == [k \in {} |-> None]

\* Map.prototype.set.
MapSet(m, k, v) == [x \in DOMAIN m \cup {k} |-> IF x = k THEN v ELSE m[x]]

\* Errors: a message kind and its details.  NoError is an absent error.
MkError(kind, detail) == [kind |-> kind, detail |-> detail]

NoError == MkError(None, <<>>)

\* The null data recorded for a failed node.
NullData == [isNull |-> TRUE]

NewExecutionContext(ns, order) ==
  [nodes |-> ns,
   executionOrder |-> order,
   outputs |-> EmptyMap,
   progress |-> [currentNodeId |-> "",
                 completed |-> <<>>,
                 failed |-> <<>>,
                 remaining |-> order,
                 totalNodes |-> Len(ns)],
   aborted |-> FALSE]

\* A setNodeOutput that leaves the node in remaining.
setNodeOutput_KeepsRemaining(ctx, nodeId, data, error) ==
  [ctx EXCEPT
     !.outputs = MapSet(ctx.outputs, nodeId,
                        [nodeId |-> nodeId, data |-> data, error |-> error]),
     !.progress.failed = IF error # NoError THEN Append(@, nodeId) ELSE @,
     !.progress.completed = IF error # NoError THEN @ ELSE Append(@, nodeId)]

\* The timestamp of a NodeOutput is not modelled.
setNodeOutput(ctx, nodeId, data, error) ==
  LET index == IndexOf(ctx.progress.remaining, nodeId)
  IN [ctx EXCEPT
        !.outputs = MapSet(ctx.outputs, nodeId,
                           [nodeId |-> nodeId, data |-> data, error |-> error]),
        !.progress.failed = IF error # NoError THEN Append(@, nodeId) ELSE @,
        !.progress.completed = IF error # NoError THEN @ ELSE Append(@, nodeId),
        !.progress.remaining = IF index > 0 THEN RemoveAt(@, index) ELSE @]

\* A key that prefers the edge's sourceHandle.
InputKey_PrefersSourceHandle(edge) ==
  IF edge.sourceHandle # None THEN edge.sourceHandle
  ELSE IF edge.targetHandle # None THEN edge.targetHandle
  ELSE edge.source

\* edge.targetHandle || edge.sourceHandle || edge.source
InputKey(edge) ==
  IF edge.targetHandle # None THEN edge.targetHandle
  ELSE IF edge.sourceHandle # None THEN edge.sourceHandle
  ELSE edge.source

\* A forEach that takes the output of every recorded source, failed or not.
RECURSIVE CollectInputs_IgnoresError(_, _, _)
CollectInputs_IgnoresError(ctx, incomingEdges, acc) ==
  IF incomingEdges = <<>> THEN acc
  ELSE LET edge == Head(incomingEdges)
           ok == edge.source \in DOMAIN ctx.outputs
       IN CollectInputs_IgnoresError(ctx, Tail(incomingEdges),
            IF ok THEN MapSet(acc, InputKey(edge), ctx.outputs[edge.source].data)
                  ELSE acc)

\* incomingEdges.forEach: set the key of each edge whose source has an output
\* without error.
RECURSIVE CollectInputs(_, _, _)
CollectInputs(ctx, incomingEdges, acc) ==
  IF incomingEdges = <<>> THEN acc
  ELSE LET edge == Head(incomingEdges)
           ok == /\ edge.source \in DOMAIN ctx.outputs
                 /\ ctx.outputs[edge.source].error = NoError
       IN CollectInputs(ctx, Tail(incomingEdges),
            IF ok THEN MapSet(acc, InputKey(edge), ctx.outputs[edge.source].data)
                  ELSE acc)

getNodeInputs(ctx, nodeId, es) ==
  CollectInputs(ctx, SelectSeq(es, LAMBDA e : e.target = nodeId), EmptyMap)

setCurrentNode(ctx, nodeId) == [ctx EXCEPT !.progress.currentNodeId = nodeId]

getProgress(ctx) == ctx.progress

ctxAbort(ctx) == [ctx EXCEPT !.aborted = TRUE]

isAborted(ctx) == ctx.aborted

getAllOutputs(ctx) == ctx.outputs

\* A clear that leaves the aborted flag as it was.
clear_KeepsAborted(ctx) ==
  [ctx EXCEPT
     !.outputs = EmptyMap,
     !.progress = [currentNodeId |-> "",
                   completed |-> <<>>,
                   failed |-> <<>>,
                   remaining |-> ctx.executionOrder,
                   totalNodes |-> Len(ctx.nodes)]]

clear(ctx) ==
  [ctx EXCEPT
     !.outputs = EmptyMap,
     !.progress = [currentNodeId |-> "",
                   completed |-> <<>>,
                   failed |-> <<>>,
                   remaining |-> ctx.executionOrder,
                   totalNodes |-> Len(ctx.nodes)],
     !.aborted = FALSE]

\* The object getProgress returns is {...this.progress}: its currentNodeId and
\* totalNodes are copies, its three lists are the context's own arrays until
\* clear() gives the context new ones.  value is what the holder of the object
\* reads from it, shared whether its lists are still the context's arrays.
ProgressHandle(ctx) == [value |-> getProgress(ctx), shared |-> TRUE]

\* What the holder of a returned progress object reads after the context
\* changed from some state to ctx2 by pushing to or splicing its arrays.
HandleAfterUpdate(snap, ctx2) ==
  IF snap = <<>> \/ ~snap[1].shared THEN snap
  ELSE <<[snap[1] EXCEPT !.value.completed = ctx2.progress.completed,
                         !.value.failed = ctx2.progress.failed,
                         !.value.remaining = ctx2.progress.remaining]>>

\* The returned object once clear() replaced this.progress, or once the executor
\* replaced the context by a new one.
HandleAfterClear(snap) ==
  IF snap = <<>> THEN snap ELSE <<[snap[1] EXCEPT !.shared = FALSE]>>

(***************************************************************************)
(* Node handler registry and GraphExecutor.executeNode.                    *)
(***************************************************************************)
\* nodeHandlerRegistry.getHandlerForNode(node): whether a handler is registered.
HasHandler(node) == node.type = "source"

\* Values a handler may return as result.data for a node: opaque to the engine.
DataVals == {"x"}

HandlerResult(node, d) == [value |-> d, of |-> node.id]

HandlerFailed(node) == MkError("Handler execution failed for node type", <<node.type>>)

\* The passthrough result of a node without a registered handler.
FallbackOutput(node, ins) ==
  [nodeId |-> node.id,
   type |-> IF node.type = None THEN "unknown" ELSE node.type,
   inputs |-> ins,
   data |-> node.data,
   warning |-> "No handler registered for this node type"]

(***************************************************************************)
(* GraphExecutor: the state of one executor and of its execute() call.     *)
(***************************************************************************)
VARIABLES
  nodes,           \* execute's argument
  edges,           \* execute's argument
  sortedNodes,     \* TopologicalSort.sort's result
  executionOrder,  \* the order the loop iterates
  isExecuting,     \* GraphExecutor.isExecuting
  context,         \* GraphExecutor.context: <<>> for null, else <<ctx>>
  pc,              \* where the accepted execute() call is suspended
  cur,             \* index in executionOrder of the loop's current node, or 0
  inputs,          \* the inputs handed to the current node
  pendingErr,      \* the error being thrown
  events,          \* the option callbacks invoked by the accepted call, in order
  settled,         \* how the accepted call ended: pending, resolved, rejected
  returned,        \* the outputs map passed to onComplete and returned
  callError,       \* the error of an execute() call made while this pass is in flight
  abortCall,       \* where the pass stood when abort() set the context's flag
  validation,      \* the last ValidationResult: <<>> before any, else <<result>>
  snapshot,        \* the last value returned by getProgress(): <<>> or <<value>>
  store,           \* the ExecutionStore that owns the executor: <<>> or <<store>>
  engine,          \* an ExecutionEngine and its executeWorkflow call: <<>> or <<engine>>
  triggerSystem,   \* a TriggerSystem: <<>> or <<system>>
  levelMap         \* the last result of groupByLevel: <<>> or <<map>>

vars == <<nodes, edges, sortedNodes, executionOrder, isExecuting, context, pc, cur,
          inputs, pendingErr, events, settled, returned, callError, abortCall,
          validation, snapshot, store, engine, triggerSystem, levelMap>>

\* No abort() has set the flag of the current context.
NoAbort == [at |-> None, seen |-> 0]

Ctx == context[1]

Event(cb, node, arg) == [cb |-> cb, node |-> node, arg |-> arg]

ValidationFailed(errors) ==
  MkError("Graph validation failed", [i \in 1..Len(errors) |-> errors[i].code])

CallbackThrew(cb) == MkError("callback threw", <<cb>>)

AlreadyRunning == "Graph execution already in progress"

(***************************************************************************)
(* ExecutionStore: the store that owns a GraphExecutor and passes its own   *)
(* callbacks to execute.  Logs, timestamps and the output and error message *)
(* kept per node are not modelled.                                          *)
(***************************************************************************)
\* The field initialisers of ExecutionStore.
NewStore ==
  [isRunning |-> FALSE, isPaused |-> FALSE, progress |-> <<>>,
   nodeStates |-> EmptyMap, results |-> <<>>, error |-> None]

\* executeGraph up to its call of executor.execute: reset the state and set
\* every node to pending.
ExecuteGraphReset(st, ns) ==
  [isRunning |-> TRUE, isPaused |-> FALSE, progress |-> <<>>,
   nodeStates |-> [id \in IdSet(ns) |-> "pending"], results |-> <<>>, error |-> None]

\* updateNodeState(nodeId, {status}).
updateNodeState(st, nodeId, status) ==
  [st EXCEPT !.nodeStates = MapSet(@, nodeId, status)]

\* The callbacks executeGraph passes to execute.  The progress object the store
\* keeps shares its lists with the context; its own fields are kept here.
StoreCallback(st, e) ==
  CASE e.cb = "onProgress" ->
         [st EXCEPT !.progress = <<[currentNodeId |-> e.arg.currentNodeId,
                                    totalNodes |-> e.arg.totalNodes]>>]
    [] e.cb = "onNodeExecute" -> updateNodeState(st, e.node, "running")
    [] e.cb = "onNodeComplete" -> updateNodeState(st, e.node, "completed")
    [] e.cb = "onNodeError" -> updateNodeState(st, e.node, "error")
    [] e.cb = "onComplete" -> [st EXCEPT !.results = <<e.arg>>]
    [] e.cb = "onError" -> [st EXCEPT !.error = e.arg.kind]

RECURSIVE StoreCallbacks(_, _)
StoreCallbacks(st, evs) ==
  IF evs = <<>> THEN st
  ELSE StoreCallbacks(StoreCallback(st, Head(evs)), Tail(evs))

\* executeGraph after the awaited execute call settled: the catch block on a
\* rejection, then the finally block.
ExecuteGraphSettles(st, outcome, err) ==
  [st EXCEPT !.error = IF outcome = "rejected" THEN err.kind ELSE @,
             !.isRunning = FALSE]

\* abortExecution past its isRunning guard.
AbortExecutionEffect(st) == [st EXCEPT !.isRunning = FALSE]

\* getExecutionStatus(): a results map, even an empty one, is truthy.
getExecutionStatus(st) ==
  IF st.error # None THEN "error"
  ELSE IF st.results # <<>> /\ ~st.isRunning THEN "completed"
  ELSE IF st.isPaused THEN "paused"
  ELSE IF st.isRunning THEN "running"
  ELSE "idle"

\* What a step of the executor does to the store that owns it: the callbacks
\* invoked in the step run, and executeGraph resumes if the call settled.
\* Without a store (the executor used directly) nothing happens.
StoreObserves ==
  store' =
    IF store = <<>> THEN <<>>
    ELSE LET called == SubSeq(events', Len(events) + 1, Len(events'))
             st == StoreCallbacks(store[1], called)
         IN IF settled = "pending" /\ settled' # "pending"
              THEN <<ExecuteGraphSettles(st, settled', pendingErr')>>
              ELSE <<st>>

\* An outputs map that keeps the whole NodeOutput record instead of its data.
CollectOutputs_KeepsRecords(ctx) ==
  LET all == getAllOutputs(ctx)
  IN [id \in {k \in DOMAIN all : all[k].error = NoError} |-> all[id]]

\* const outputs = new Map(); getAllOutputs().forEach(...): the data of every
\* output recorded without error.
CollectOutputs(ctx) ==
  LET all == getAllOutputs(ctx)
  IN [id \in {k \in DOMAIN all : all[k].error = NoError} |-> all[id].data]

\* The first iteration at or after i whose node nodes.find() finds.
RECURSIVE NextRunnable(_, _, _)
NextRunnable(ns, order, i) ==
  IF i > Len(order) THEN i
  ELSE IF FindNode(ns, order[i]) # <<>> THEN i
  ELSE NextRunnable(ns, order, i + 1)

\* A loop that never checks the abort flag.
ContinueLoop_IgnoresAbort(ctx, i, order, ev) ==
  LET k == NextRunnable(nodes, order, i)
  IN /\ pendingErr' = NoError
     /\ IF i > Len(order) \/ k > Len(order)
          THEN /\ context' = <<ctx>>
               /\ returned' = CollectOutputs(ctx)
               /\ events' = Append(ev, Event("onComplete", None, CollectOutputs(ctx)))
               /\ pc' = "onComplete"
               /\ cur' = 0
          ELSE /\ context' = <<setCurrentNode(ctx, order[k])>>
               /\ returned' = EmptyMap
               /\ events' = Append(ev, Event("onNodeExecute", order[k], None))
               /\ pc' = "onNodeExecute"
               /\ cur' = k

\* The for loop from iteration i up to the next callback: either the loop ends
\* (order exhausted, or the abort flag is set) and onComplete is invoked with the
\* collected outputs, or the next node becomes current and onNodeExecute is invoked.
ContinueLoop(ctx, i, order, ev) ==
  LET k == NextRunnable(nodes, order, i)
  IN /\ pendingErr' = NoError
     /\ IF i > Len(order) \/ isAborted(ctx) \/ k > Len(order)
          THEN /\ context' = <<ctx>>
               /\ returned' = CollectOutputs(ctx)
               /\ events' = Append(ev, Event("onComplete", None, CollectOutputs(ctx)))
               /\ pc' = "onComplete"
               /\ cur' = 0
          ELSE /\ context' = <<setCurrentNode(ctx, order[k])>>
               /\ returned' = EmptyMap
               /\ events' = Append(ev, Event("onNodeExecute", order[k], None))
               /\ pc' = "onNodeExecute"
               /\ cur' = k

\* An inner catch that records the failure in a cleared context.
CatchNode_ClearsContext(ctx, nodeId, err, ev) ==
  /\ context' = <<setNodeOutput(clear(ctx), nodeId, NullData, err)>>
  /\ events' = Append(ev, Event("onNodeError", nodeId, err))
  /\ pendingErr' = err
  /\ pc' = "onNodeError"

\* The inner catch block up to its callback.
CatchNode(ctx, nodeId, err, ev) ==
  /\ context' = <<setNodeOutput(ctx, nodeId, NullData, err)>>
  /\ events' = Append(ev, Event("onNodeError", nodeId, err))
  /\ pendingErr' = err
  /\ pc' = "onNodeError"

\* The outer catch block up to its callback.
CatchOuter(err, ev) ==
  /\ events' = Append(ev, Event("onError", None, err))
  /\ pendingErr' = err
  /\ pc' = "onError"

CurId == executionOrder[cur]

CurNode == FindNode(nodes, CurId)[1]

(***************************************************************************)
(* GraphExecutor.execute, one action per stretch of code between two       *)
(* points where control leaves the executor (a callback or the await).     *)
(***************************************************************************)

\* A pass whose new context inherits the abort flag of the context before it.
StartPass_KeepsAbortFlag ==
  /\ isExecuting' = TRUE
  /\ settled' = "pending"
  /\ callError' = None
  /\ inputs' = EmptyMap
  /\ validation' = <<validate(nodes, edges)>>
  /\ LET result == validate(nodes, edges)
     IN IF ~result.valid
          THEN /\ events' = <<Event("onError", None, ValidationFailed(result.errors))>>
               /\ pendingErr' = ValidationFailed(result.errors)
               /\ pc' = "onErrorValidation"
               /\ cur' = 0
               /\ returned' = EmptyMap
               /\ UNCHANGED <<context, sortedNodes, executionOrder, abortCall>>
          ELSE /\ sortedNodes' = sort(nodes, edges)
               /\ executionOrder' = getExecutionOrder(sort(nodes, edges))
               /\ abortCall' = NoAbort
               /\ ContinueLoop(
                    [NewExecutionContext(nodes, getExecutionOrder(sort(nodes, edges)))
                       EXCEPT !.aborted = context # <<>> /\ isAborted(Ctx)],
                    1, getExecutionOrder(sort(nodes, edges)), <<>>)
  /\ store' = IF store = <<>> THEN <<>>
              ELSE <<StoreCallbacks(ExecuteGraphReset(store[1], nodes), events')>>
  /\ snapshot' = IF validate(nodes, edges).valid THEN HandleAfterClear(snapshot)
                                                 ELSE snapshot
  /\ UNCHANGED <<levelMap, engine, triggerSystem, nodes, edges>>

\* An accepted execute() call up to its first callback: validation, sort, a fresh
\* context and the head of the loop.
StartPass ==
  /\ isExecuting' = TRUE
  /\ settled' = "pending"
  /\ callError' = None
  /\ inputs' = EmptyMap
  /\ validation' = <<validate(nodes, edges)>>
  /\ LET result == validate(nodes, edges)
     IN IF ~result.valid
          THEN /\ events' = <<Event("onError", None, ValidationFailed(result.errors))>>
               /\ pendingErr' = ValidationFailed(result.errors)
               /\ pc' = "onErrorValidation"
               /\ cur' = 0
               /\ returned' = EmptyMap
               /\ UNCHANGED <<context, sortedNodes, executionOrder, abortCall>>
          ELSE /\ sortedNodes' = sort(nodes, edges)
               /\ executionOrder' = getExecutionOrder(sort(nodes, edges))
               /\ abortCall' = NoAbort
               /\ ContinueLoop(
                    NewExecutionContext(nodes, getExecutionOrder(sort(nodes, edges))),
                    1, getExecutionOrder(sort(nodes, edges)), <<>>)
  /\ store' = IF store = <<>> THEN <<>>
              ELSE <<StoreCallbacks(ExecuteGraphReset(store[1], nodes), events')>>
  /\ snapshot' = IF validate(nodes, edges).valid THEN HandleAfterClear(snapshot)
                                                 ELSE snapshot
  /\ UNCHANGED <<levelMap, engine, triggerSystem, nodes, edges>>

\* execute() while no pass is in flight.
Execute ==
  /\ ~isExecuting
  /\ StartPass

\* An execute() that starts a pass although one is in flight.
ExecuteWhileRunning_StartsPass ==
  /\ isExecuting
  /\ StartPass

\* execute() while a pass is in flight: throws before the try block.
ExecuteWhileRunning ==
  /\ isExecuting
  /\ callError' = AlreadyRunning
  /\ UNCHANGED <<levelMap, engine, triggerSystem, snapshot, validation, nodes, edges, sortedNodes, executionOrder, isExecuting, context, pc,
                 cur, inputs, pendingErr, events, settled, returned, abortCall>>
  /\ store' = IF store = <<>> THEN <<>>
              ELSE <<ExecuteGraphSettles(ExecuteGraphReset(store[1], nodes), "rejected",
                                         MkError(AlreadyRunning, <<>>))>>

\* options.onError of a validation failure returns or throws: the error reaches
\* the outer catch.
OnErrorValidationReturns(threw) ==
  /\ pc = "onErrorValidation"
  /\ CatchOuter(IF threw THEN CallbackThrew("onError") ELSE pendingErr, events)
  /\ UNCHANGED <<levelMap, engine, triggerSystem, snapshot, validation, nodes, edges, sortedNodes, executionOrder, isExecuting, context, cur,
                 inputs, settled, returned, callError, abortCall>>
  /\ StoreObserves

\* onNodeExecute returns: resolve the inputs and call executeNode, which awaits
\* the handler (or returns the fallback result).
OnNodeExecuteReturns(threw) ==
  /\ pc = "onNodeExecute"
  /\ IF threw
       THEN /\ CatchNode(Ctx, CurId, CallbackThrew("onNodeExecute"), events)
            /\ UNCHANGED inputs
       ELSE /\ inputs' = getNodeInputs(Ctx, CurId, edges)
            /\ pc' = "awaitHandler"
            /\ UNCHANGED <<context, events, pendingErr>>
  /\ UNCHANGED <<levelMap, engine, triggerSystem, snapshot, validation, nodes, edges, sortedNodes, executionOrder, isExecuting, cur, settled,
                 returned, callError, abortCall>>
  /\ StoreObserves

\* The awaited executeNode resolves with output: record it, invoke onNodeComplete.
NodeResolves(output) ==
  /\ context' = <<setNodeOutput(Ctx, CurId, output, NoError)>>
  /\ events' = Append(events, Event("onNodeComplete", CurId, output))
  /\ pc' = "onNodeComplete"
  /\ UNCHANGED <<levelMap, engine, triggerSystem, snapshot, validation, nodes, edges, sortedNodes, executionOrder, isExecuting, cur, inputs,
                 pendingErr, settled, returned, callError, abortCall>>
  /\ StoreObserves

HandlerResolves(d) ==
  /\ pc = "awaitHandler"
  /\ HasHandler(CurNode)
  /\ NodeResolves(HandlerResult(CurNode, d))

\* An executeNode that throws for a node without a registered handler.
FallbackResolves_Rejects ==
  /\ pc = "awaitHandler"
  /\ ~HasHandler(CurNode)
  /\ CatchNode(Ctx, CurId, HandlerFailed(CurNode), events)
  /\ UNCHANGED <<levelMap, engine, triggerSystem, snapshot, validation, nodes, edges, sortedNodes, executionOrder, isExecuting, cur, inputs,
                 settled, returned, callError, abortCall>>
  /\ StoreObserves

FallbackResolves ==
  /\ pc = "awaitHandler"
  /\ ~HasHandler(CurNode)
  /\ NodeResolves(FallbackOutput(CurNode, inputs))

\* The handler throws or rejects: executeNode rethrows, the inner catch records it.
HandlerRejects ==
  /\ pc = "awaitHandler"
  /\ HasHandler(CurNode)
  /\ CatchNode(Ctx, CurId, HandlerFailed(CurNode), events)
  /\ UNCHANGED <<levelMap, engine, triggerSystem, snapshot, validation, nodes, edges, sortedNodes, executionOrder, isExecuting, cur, inputs,
                 settled, returned, callError, abortCall>>
  /\ StoreObserves

\* onNodeComplete returns: report progress; if it throws, the inner catch runs.
OnNodeCompleteReturns(threw) ==
  /\ pc = "onNodeComplete"
  /\ IF threw
       THEN CatchNode(Ctx, CurId, CallbackThrew("onNodeComplete"), events)
       ELSE /\ events' = Append(events, Event("onProgress", None, getProgress(Ctx)))
            /\ pc' = "onProgress"
            /\ UNCHANGED <<context, pendingErr>>
  /\ UNCHANGED <<levelMap, engine, triggerSystem, snapshot, validation, nodes, edges, sortedNodes, executionOrder, isExecuting, cur, inputs,
                 settled, returned, callError, abortCall>>
  /\ StoreObserves

\* An inner catch that does not rethrow: the loop goes on with the next node.
OnNodeErrorReturns_ContinuesLoop(threw) ==
  /\ pc = "onNodeError"
  /\ ContinueLoop(Ctx, cur + 1, executionOrder, events)
  /\ UNCHANGED <<levelMap, engine, triggerSystem, snapshot, validation, nodes, edges, sortedNodes, executionOrder, isExecuting, inputs,
                 settled, callError, abortCall>>
  /\ StoreObserves

\* onNodeError returns: the inner catch rethrows into the outer catch.
OnNodeErrorReturns(threw) ==
  /\ pc = "onNodeError"
  /\ CatchOuter(IF threw THEN CallbackThrew("onNodeError") ELSE pendingErr, events)
  /\ UNCHANGED <<levelMap, engine, triggerSystem, snapshot, validation, nodes, edges, sortedNodes, executionOrder, isExecuting, context, cur,
                 inputs, settled, returned, callError, abortCall>>
  /\ StoreObserves

\* onProgress returns: the next iteration of the loop.
OnProgressReturns(threw) ==
  /\ pc = "onProgress"
  /\ IF threw
       THEN /\ CatchOuter(CallbackThrew("onProgress"), events)
            /\ UNCHANGED <<context, cur, returned>>
       ELSE ContinueLoop(Ctx, cur + 1, executionOrder, events)
  /\ UNCHANGED <<levelMap, engine, triggerSystem, snapshot, validation, nodes, edges, sortedNodes, executionOrder, isExecuting, inputs,
                 settled, callError, abortCall>>
  /\ StoreObserves

\* onComplete returns: execute returns the outputs; finally clears isExecuting.
OnCompleteReturns(threw) ==
  /\ pc = "onComplete"
  /\ IF threw
       THEN /\ CatchOuter(CallbackThrew("onComplete"), events)
            /\ UNCHANGED <<isExecuting, settled, callError>>
       ELSE /\ isExecuting' = FALSE
            /\ settled' = "resolved"
            /\ pc' = "idle"
            /\ callError' = None
            /\ UNCHANGED <<events, pendingErr>>
  /\ UNCHANGED <<levelMap, engine, triggerSystem, snapshot, validation, nodes, edges, sortedNodes, executionOrder, context, cur, inputs,
                 returned, abortCall>>
  /\ StoreObserves

\* An outer catch without the finally block: isExecuting stays set.
OnErrorReturns_SkipsFinally(threw) ==
  /\ pc = "onError"
  /\ settled' = "rejected"
  /\ pc' = "idle"
  /\ pendingErr' = IF threw THEN CallbackThrew("onError") ELSE pendingErr
  /\ callError' = None
  /\ UNCHANGED <<levelMap, engine, triggerSystem, snapshot, validation, nodes, edges, sortedNodes, executionOrder, context, cur, inputs,
                 events, returned, abortCall, isExecuting>>
  /\ StoreObserves

\* onError (outer catch) returns or throws: execute rejects; finally clears
\* isExecuting.
OnErrorReturns(threw) ==
  /\ pc = "onError"
  /\ isExecuting' = FALSE
  /\ settled' = "rejected"
  /\ pc' = "idle"
  /\ pendingErr' = IF threw THEN CallbackThrew("onError") ELSE pendingErr
  /\ callError' = None
  /\ UNCHANGED <<levelMap, engine, triggerSystem, snapshot, validation, nodes, edges, sortedNodes, executionOrder, context, cur, inputs,
                 events, returned, abortCall>>
  /\ StoreObserves

\* GraphExecutor.abort(): this.context?.abort(), at any time.
Abort ==
  /\ context' = IF context = <<>> THEN <<>> ELSE <<ctxAbort(Ctx)>>
  /\ abortCall' = IF context # <<>> /\ ~isAborted(Ctx)
                    THEN [at |-> pc, seen |-> Len(events)]
                    ELSE abortCall
  /\ UNCHANGED <<levelMap, engine, triggerSystem, snapshot, validation, nodes, edges, sortedNodes, executionOrder, isExecuting, pc, cur,
                 inputs, pendingErr, events, settled, returned, callError>>
  /\ store' = IF store = <<>> THEN <<>> ELSE <<AbortExecutionEffect(store[1])>>

isRunning == isExecuting

getContext == context

(***************************************************************************)
(* The executor on every graph within the bounds.                          *)
(***************************************************************************)
\* A node list holds each node object once (two nodes may still share an id).
Distinct(s) == \A i, j \in 1..Len(s) : s[i] = s[j] => i = j

Init ==
  /\ nodes \in {ns \in BSeq(NodePool, MaxNodes) : Distinct(ns)}
  /\ edges \in BSeq(EdgePool, MaxEdges)
  /\ sortedNodes = <<>>
  /\ executionOrder = <<>>
  /\ isExecuting = FALSE
  /\ context = <<>>
  /\ pc = "idle"
  /\ cur = 0
  /\ inputs = EmptyMap
  /\ pendingErr = NoError
  /\ events = <<>>
  /\ settled = "none"
  /\ returned = EmptyMap
  /\ callError = None
  /\ abortCall = NoAbort
  /\ validation = <<>>
  /\ snapshot = <<>>
  /\ store = <<>>
  /\ engine = <<>>
  /\ triggerSystem = <<>>
  /\ levelMap = <<>>

Next ==
  \/ Execute
  \/ ExecuteWhileRunning
  \/ Abort
  \/ \E threw \in BOOLEAN : OnErrorValidationReturns(threw)
  \/ \E threw \in BOOLEAN : OnNodeExecuteReturns(threw)
  \/ \E d \in DataVals : HandlerResolves(d)
  \/ FallbackResolves
  \/ HandlerRejects
  \/ \E threw \in BOOLEAN : OnNodeCompleteReturns(threw)
  \/ \E threw \in BOOLEAN : OnNodeErrorReturns(threw)
  \/ \E threw \in BOOLEAN : OnProgressReturns(threw)
  \/ \E threw \in BOOLEAN : OnCompleteReturns(threw)
  \/ \E threw \in BOOLEAN : OnErrorReturns(threw)

Spec == Init /\ [][Next]_vars

(***************************************************************************)
(* TopologicalSort on its own: sort, then getExecutionOrder, on every      *)
(* graph within the bounds (cyclic graphs and dangling edges included).    *)
(***************************************************************************)
UniqueIds(ns) == \A i, j \in 1..Len(ns) : ns[i].id = ns[j].id => i = j

SortInit ==
  /\ nodes \in {ns \in BSeq({MkNode(id, TypeOf(id)) : id \in NodeIds}, MaxNodes) :
                  UniqueIds(ns)}
  /\ edges \in BSeq(EdgePool, MaxSortEdges)
  /\ sortedNodes = <<>>
  /\ executionOrder = <<>>
  /\ isExecuting = FALSE
  /\ context = <<>>
  /\ pc = "unsorted"
  /\ cur = 0
  /\ inputs = EmptyMap
  /\ pendingErr = NoError
  /\ events = <<>>
  /\ settled = "none"
  /\ returned = EmptyMap
  /\ callError = None
  /\ abortCall = NoAbort
  /\ validation = <<>>
  /\ snapshot = <<>>
  /\ store = <<>>
  /\ engine = <<>>
  /\ triggerSystem = <<>>
  /\ levelMap = <<>>

\* sort has no throw statement: it returns its result whatever was emitted, and
\* no error is raised (pendingErr stays as it is).
SortStep ==
  /\ pc = "unsorted"
  /\ sortedNodes' = sort(nodes, edges)
  /\ pc' = "sorted"
  /\ UNCHANGED <<levelMap, engine, triggerSystem, store, snapshot, validation, nodes, edges, executionOrder, isExecuting, context, cur, inputs,
                 pendingErr, events, settled, returned, callError, abortCall>>

GetExecutionOrderStep ==
  /\ pc = "sorted"
  /\ executionOrder' = getExecutionOrder(sortedNodes)
  /\ pc' = "ordered"
  /\ UNCHANGED <<levelMap, engine, triggerSystem, store, snapshot, validation, nodes, edges, sortedNodes, isExecuting, context, cur, inputs,
                 pendingErr, events, settled, returned, callError, abortCall>>

GroupByLevelStep ==
  /\ pc = "sorted"
  /\ levelMap' = <<groupByLevel(sortedNodes)>>
  /\ pc' = "grouped"
  /\ UNCHANGED <<engine, triggerSystem, store, snapshot, validation, nodes, edges, sortedNodes,
                 executionOrder, isExecuting, context, cur, inputs, pendingErr, events,
                 settled, returned, callError, abortCall>>

SortNext == SortStep \/ GetExecutionOrderStep \/ GroupByLevelStep

SortSpec == SortInit /\ [][SortNext]_vars

(***************************************************************************)
(* GraphValidator on its own: validateGraph on every graph within the      *)
(* bounds, with port metadata on nodes and port handles on edges.          *)
(***************************************************************************)
MaxVNodes == 3
MaxVEdges == 2

\* A node whose data declares input and output ports.
MkPortNode(id, type, ins, outs) ==
  [id |-> id, type |-> type,
   data |-> [hasInputs |-> TRUE, inputs |-> ins, hasOutputs |-> TRUE, outputs |-> outs]]

MkHandleEdge(source, target, sourceHandle, targetHandle) ==
  [source |-> source, target |-> target,
   sourceHandle |-> sourceHandle, targetHandle |-> targetHandle]

\* A and C carry no port metadata, B declares the ports "in" and "out"; C also
\* comes without a type.
VNodePool ==
  {MkNode("A", "source"), MkPortNode("B", "sink", {"in"}, {"out"}),
   MkNode("C", "source"), MkNode("C", None)}

\* Every edge without handles, and edges naming a declared port of B ("in",
\* "out"), an undeclared port of B ("bad") and a port of A.
VEdgePool ==
  EdgePool \cup
    {MkHandleEdge("A", "B", None, "in"),
     MkHandleEdge("A", "B", None, "bad"),
     MkHandleEdge("B", "A", "out", "in")}

ValidatorInit ==
  /\ nodes \in {ns \in BSeq(VNodePool, MaxVNodes) : Distinct(ns)}
  /\ edges \in BSeq(VEdgePool, MaxVEdges)
  /\ sortedNodes = <<>>
  /\ executionOrder = <<>>
  /\ isExecuting = FALSE
  /\ context = <<>>
  /\ pc = "unvalidated"
  /\ cur = 0
  /\ inputs = EmptyMap
  /\ pendingErr = NoError
  /\ events = <<>>
  /\ settled = "none"
  /\ returned = EmptyMap
  /\ callError = None
  /\ abortCall = NoAbort
  /\ validation = <<>>
  /\ snapshot = <<>>
  /\ store = <<>>
  /\ engine = <<>>
  /\ triggerSystem = <<>>
  /\ levelMap = <<>>

\* GraphValidator.validateGraph({nodes, edges}).
ValidateStep ==
  /\ pc = "unvalidated"
  /\ validation' = <<validateGraph(nodes, edges)>>
  /\ pc' = "validated"
  /\ UNCHANGED <<levelMap, engine, triggerSystem, store, snapshot, nodes, edges, sortedNodes, executionOrder, isExecuting, context, cur,
                 inputs, pendingErr, events, settled, returned, callError, abortCall>>

ValidatorNext == ValidateStep

ValidatorSpec == ValidatorInit /\ [][ValidatorNext]_vars

(***************************************************************************)
(* ExecutionContext on its own: a context for the nodes A, B, C driven by   *)
(* any sequence of setNodeOutput and getNodeInputs calls, over edges with   *)
(* and without port handles.                                               *)
(***************************************************************************)
MaxRecords == 3
MaxCtxEdges == 2

CtxNodes == <<MkNode("A", "source"), MkNode("B", "sink"), MkNode("C", "source")>>

CtxEdgePool ==
  {MkEdge("A", "C"), MkEdge("B", "C"), MkEdge("A", "B"), MkEdge("C", "C"),
   MkHandleEdge("A", "C", None, "in"),
   MkHandleEdge("B", "C", None, "in"),
   MkHandleEdge("A", "C", "out", None),
   MkHandleEdge("B", "C", "out", None),
   MkHandleEdge("B", "C", "out", "in")}

ContextInit ==
  /\ nodes = CtxNodes
  /\ edges \in BSeq(CtxEdgePool, MaxCtxEdges)
  /\ sortedNodes = <<>>
  /\ executionOrder = Ids(CtxNodes)
  /\ isExecuting = FALSE
  /\ context = <<NewExecutionContext(CtxNodes, Ids(CtxNodes))>>
  /\ pc = "ctx"
  /\ cur = 0
  /\ inputs = EmptyMap
  /\ pendingErr = NoError
  /\ events = <<>>
  /\ settled = "none"
  /\ returned = EmptyMap
  /\ callError = None
  /\ abortCall = NoAbort
  /\ validation = <<>>
  /\ snapshot = <<>>
  /\ store = <<>>
  /\ engine = <<>>
  /\ triggerSystem = <<>>
  /\ levelMap = <<>>

\* context.setNodeOutput(nodeId, data) or context.setNodeOutput(nodeId, null, err);
\* a map returned by an earlier getNodeInputs is dropped.
CtxSetNodeOutput(nodeId, failed) ==
  /\ Len(Ctx.progress.completed) + Len(Ctx.progress.failed) < MaxRecords
  /\ context' = <<IF failed
                    THEN setNodeOutput(Ctx, nodeId, NullData,
                                       HandlerFailed(NodeMapOf(nodes)[nodeId]))
                    ELSE setNodeOutput(Ctx, nodeId,
                                       HandlerResult(NodeMapOf(nodes)[nodeId], "x"),
                                       NoError)>>
  /\ snapshot' = HandleAfterUpdate(snapshot, context'[1])
  /\ pc' = "ctx"
  /\ cur' = 0
  /\ inputs' = EmptyMap
  /\ UNCHANGED <<levelMap, engine, triggerSystem, store, validation, nodes, edges, sortedNodes, executionOrder, isExecuting,
                 pendingErr, events, settled, returned, callError, abortCall>>

\* inputs = context.getNodeInputs(nodeId, edges).
CtxGetNodeInputs(nodeId) ==
  /\ inputs' = getNodeInputs(Ctx, nodeId, edges)
  /\ cur' = IndexOf(executionOrder, nodeId)
  /\ pc' = "inputs"
  /\ UNCHANGED <<levelMap, engine, triggerSystem, store, snapshot, validation, nodes, edges, sortedNodes, executionOrder, isExecuting,
                 context, pendingErr, events, settled, returned, callError, abortCall>>

ContextNext ==
  \/ \E nodeId \in NodeIds, failed \in BOOLEAN : CtxSetNodeOutput(nodeId, failed)
  \/ \E nodeId \in NodeIds : CtxGetNodeInputs(nodeId)

ContextSpec == ContextInit /\ [][ContextNext]_vars

(***************************************************************************)
(* ExecutionContext and the progress objects it hands out: a context for    *)
(* A, B, C driven by setNodeOutput, setCurrentNode, getProgress, abort and  *)
(* clear, and a caller that writes to the progress object it was given.     *)
(***************************************************************************)
MaxProgressRecords == 2

ProgressInit ==
  /\ ContextInit
  /\ edges = <<>>

\* context.setCurrentNode(nodeId).
CtxSetCurrentNode(nodeId) ==
  /\ context' = <<setCurrentNode(Ctx, nodeId)>>
  /\ pc' = "ctx"
  /\ UNCHANGED <<levelMap, engine, triggerSystem, store, snapshot, validation, nodes, edges, sortedNodes, executionOrder, isExecuting,
                 cur, inputs, pendingErr, events, settled, returned, callError, abortCall>>

\* snapshot = context.getProgress().
CtxGetProgress ==
  /\ snapshot' = <<ProgressHandle(Ctx)>>
  /\ pc' = "progress"
  /\ UNCHANGED <<levelMap, engine, triggerSystem, store, validation, nodes, edges, sortedNodes, executionOrder, isExecuting, context,
                 cur, inputs, pendingErr, events, settled, returned, callError, abortCall>>

\* context.abort().
CtxAbort ==
  /\ context' = <<ctxAbort(Ctx)>>
  /\ pc' = "ctx"
  /\ UNCHANGED <<levelMap, engine, triggerSystem, store, snapshot, validation, nodes, edges, sortedNodes, executionOrder, isExecuting,
                 cur, inputs, pendingErr, events, settled, returned, callError, abortCall>>

\* context.clear().
CtxClear ==
  /\ context' = <<clear(Ctx)>>
  /\ snapshot' = HandleAfterClear(snapshot)
  /\ pc' = "cleared"
  /\ UNCHANGED <<levelMap, engine, triggerSystem, store, validation, nodes, edges, sortedNodes, executionOrder, isExecuting,
                 cur, inputs, pendingErr, events, settled, returned, callError, abortCall>>

\* The caller empties one list of the progress object it holds
\* (snapshot[list].length = 0); a list shared with the context is the
\* context's list.
CallerEmptiesList(list) ==
  /\ snapshot # <<>>
  /\ snapshot[1].value[list] # <<>>
  /\ snapshot' = <<[snapshot[1] EXCEPT !.value[list] = <<>>]>>
  /\ context' = IF snapshot[1].shared
                  THEN <<[Ctx EXCEPT !.progress[list] = <<>>]>>
                  ELSE context
  /\ pc' = "caller"
  /\ UNCHANGED <<levelMap, engine, triggerSystem, store, validation, nodes, edges, sortedNodes, executionOrder, isExecuting,
                 cur, inputs, pendingErr, events, settled, returned, callError, abortCall>>

\* The caller assigns currentNodeId of the progress object it holds
\* (snapshot.currentNodeId = '').
CallerResetsCurrentNode ==
  /\ snapshot # <<>>
  /\ snapshot[1].value.currentNodeId # ""
  /\ snapshot' = <<[snapshot[1] EXCEPT !.value.currentNodeId = ""]>>
  /\ pc' = "caller"
  /\ UNCHANGED <<levelMap, engine, triggerSystem, store, validation, nodes, edges, sortedNodes, executionOrder, isExecuting, context,
                 cur, inputs, pendingErr, events, settled, returned, callError, abortCall>>

\* setNodeOutput while fewer than MaxProgressRecords results are listed.
ProgressSetNodeOutput(nodeId, failed) ==
  /\ Len(Ctx.progress.completed) + Len(Ctx.progress.failed) < MaxProgressRecords
  /\ CtxSetNodeOutput(nodeId, failed)

ProgressNext ==
  \/ \E nodeId \in NodeIds, failed \in BOOLEAN : ProgressSetNodeOutput(nodeId, failed)
  \/ \E nodeId \in NodeIds : CtxSetCurrentNode(nodeId)
  \/ CtxGetProgress
  \/ CtxAbort
  \/ CtxClear
  \/ \E list \in {"completed", "failed", "remaining"} : CallerEmptiesList(list)
  \/ CallerResetsCurrentNode

ProgressSpec == ProgressInit /\ [][ProgressNext]_vars

(***************************************************************************)
(* One executor used for pass after pass, by a caller who reads             *)
(* getContext().getProgress() between two passes and keeps the object.      *)
(***************************************************************************)
MaxReuseNodes == 2
MaxReuseEdges == 1

ReuseInit ==
  /\ Init
  /\ Len(nodes) <= MaxReuseNodes
  /\ Len(edges) <= MaxReuseEdges

\* snapshot = executor.getContext().getProgress(), while no pass is in flight.
CallerGetsProgress ==
  /\ pc = "idle"
  /\ getContext # <<>>
  /\ snapshot' = <<ProgressHandle(Ctx)>>
  /\ UNCHANGED <<levelMap, engine, triggerSystem, store, validation, nodes, edges, sortedNodes, executionOrder, isExecuting, context,
                 pc, cur, inputs, pendingErr, events, settled, returned, callError, abortCall>>

ReuseNext ==
  \/ Next
  \/ CallerGetsProgress

ReuseSpec == ReuseInit /\ [][ReuseNext]_vars

(***************************************************************************)
(* ExecutionStore driving its executor: executeGraph and abortExecution are *)
(* called from the user interface, between two tasks of the event loop,     *)
(* that is while the executor is idle or awaits the promise of a handler.   *)
(* The store's callbacks never throw.                                       *)
(***************************************************************************)
StoreInit ==
  /\ nodes \in {ns \in BSeq(NodePool, MaxNodes) : Distinct(ns)}
  /\ edges \in BSeq(EdgePool, MaxEdges)
  /\ sortedNodes = <<>>
  /\ executionOrder = <<>>
  /\ isExecuting = FALSE
  /\ context = <<>>
  /\ pc = "idle"
  /\ cur = 0
  /\ inputs = EmptyMap
  /\ pendingErr = NoError
  /\ events = <<>>
  /\ settled = "none"
  /\ returned = EmptyMap
  /\ callError = None
  /\ abortCall = NoAbort
  /\ validation = <<>>
  /\ snapshot = <<>>
  /\ store = <<NewStore>>
  /\ engine = <<>>
  /\ triggerSystem = <<>>
  /\ levelMap = <<>>

\* The executor is between two tasks: idle, or awaiting a handler's promise.
BetweenTasks == pc = "idle" \/ (pc = "awaitHandler" /\ HasHandler(CurNode))

\* executeGraph(nodes, edges) past its isRunning guard: the state is reset and
\* executor.execute is called, which starts a pass or throws at once.
StoreExecuteGraph ==
  /\ BetweenTasks
  /\ ~store[1].isRunning
  /\ (Execute \/ ExecuteWhileRunning)

\* abortExecution() past its isRunning guard.
StoreAbortExecution ==
  /\ BetweenTasks
  /\ store[1].isRunning
  /\ Abort

StoreNext ==
  \/ StoreExecuteGraph
  \/ StoreAbortExecution
  \/ OnErrorValidationReturns(FALSE)
  \/ OnNodeExecuteReturns(FALSE)
  \/ \E d \in DataVals : HandlerResolves(d)
  \/ FallbackResolves
  \/ HandlerRejects
  \/ OnNodeCompleteReturns(FALSE)
  \/ OnNodeErrorReturns(FALSE)
  \/ OnProgressReturns(FALSE)
  \/ OnCompleteReturns(FALSE)
  \/ OnErrorReturns(FALSE)

StoreSpec == StoreInit /\ [][StoreNext]_vars

(***************************************************************************)
(* ExecutionEngine: one engine, one executeWorkflow call at a time.  The    *)
(* call is a sequence of steps: the queue loop of getExecutionOrder one     *)
(* iteration per step, then the node loop one node per step, suspended      *)
(* while a handler's promise is pending.  Durations and stacks are not      *)
(* modelled.                                                               *)
(***************************************************************************)
MaxEngineNodes == 3
MaxEngineEdges == 2
\* The entries of order and of the queue that are followed.  The loop does not
\* stop there: it runs on without recording more, and beyondBounds counts its
\* iterations from then on as 1, 2, 1, 2, ... (0 within the bounds).  A loop
\* that ends stays within both (EngineLoopEndsWithinBounds).
MaxOrderLen == 6

MaxQueueLen == 3

\* What a handler may reject with: an Error, or a value without properties
\* (null or undefined).
Rejections == {"Error", "null"}

NewEngine ==
  [pc |-> "idle", entry |-> None, graph |-> EmptyMap, inDegree |-> EmptyMap,
   queue |-> <<>>, order |-> <<>>, beyondBounds |-> 0, i |-> 0,
   nodeResults |-> EmptyMap,
   errors |-> <<>>, result |-> <<>>]

Eng == engine[1]

\* updateNodeResult(nodeId, update) for an update of the status.
updateNodeResult(results, nodeId, status) ==
  LET existing == IF nodeId \in DOMAIN results THEN results[nodeId]
                  ELSE [nodeId |-> nodeId, status |-> "pending", output |-> NullData,
                        error |-> None]
  IN MapSet(results, nodeId, [existing EXCEPT !.status = status])

\* getInputData: the outputs of the sources of the incoming edges that have a
\* result, in edge order; the null output of a failed source is kept.
RECURSIVE getInputData(_, _, _)
getInputData(results, nodeId, es) ==
  IF es = <<>> THEN <<>>
  ELSE LET e == Head(es)
           rest == getInputData(results, nodeId, Tail(es))
       IN IF e.target = nodeId /\ e.source \in DOMAIN results
            THEN <<results[e.source].output>> \o rest
            ELSE rest

\* neighbors.forEach of getExecutionOrder: a degree of 0 counts as 1.
RECURSIVE EngineNeighbors(_, _, _)
EngineNeighbors(neighbors, inDegree, queue) ==
  IF neighbors = <<>> THEN [inDegree |-> inDegree, queue |-> queue]
  ELSE LET n == Head(neighbors)
           newDegree == (IF inDegree[n] = 0 THEN 1 ELSE inDegree[n]) - 1
       IN EngineNeighbors(Tail(neighbors),
                          [inDegree EXCEPT ![n] = newDegree],
                          IF newDegree = 0 THEN Append(queue, n) ELSE queue)

\* executeWorkflow(nodes, edges, entryNodeId) up to the queue loop of
\* getExecutionOrder: results cleared, graph and in-degrees built, queue seeded.
EngineExecuteWorkflow(entry) ==
  /\ Eng.pc \in {"idle", "returned"}
  /\ LET inDegree == InDegreeOf(nodes, edges)
         keys == InDegreeKeys(nodes, edges)
     IN engine' = <<[NewEngine EXCEPT
                       !.pc = "ordering",
                       !.entry = entry,
                       !.graph = AdjacencyOf(nodes, edges),
                       !.inDegree = inDegree,
                       !.queue = IF entry # None THEN <<entry>>
                                 ELSE SelectSeq(keys, LAMBDA k : inDegree[k] = 0)]>>
  /\ UNCHANGED <<levelMap, triggerSystem, store, snapshot, validation, nodes, edges, sortedNodes,
                 executionOrder, isExecuting, context, pc, cur, inputs, pendingErr, events,
                 settled, returned, callError, abortCall>>

\* One iteration of while (queue.length > 0).
EngineOrderStep ==
  /\ Eng.pc = "ordering"
  /\ Eng.queue # <<>>
  /\ LET current == Head(Eng.queue)
         neighbors == IF current \in DOMAIN Eng.graph THEN Eng.graph[current] ELSE <<>>
         next == EngineNeighbors(neighbors, Eng.inDegree, Tail(Eng.queue))
     IN engine' = <<[Eng EXCEPT
                       !.order = IF Len(@) < MaxOrderLen THEN Append(@, current) ELSE @,
                       !.inDegree = next.inDegree,
                       !.queue = IF Len(next.queue) <= MaxQueueLen THEN next.queue
                                 ELSE SubSeq(next.queue, 1, MaxQueueLen),
                       !.beyondBounds =
                         IF /\ @ = 0
                            /\ Len(Eng.order) < MaxOrderLen
                            /\ Len(next.queue) <= MaxQueueLen
                           THEN 0
                           ELSE IF @ = 1 THEN 2 ELSE 1]>>
  /\ UNCHANGED <<levelMap, triggerSystem, store, snapshot, validation, nodes, edges, sortedNodes,
                 executionOrder, isExecuting, context, pc, cur, inputs, pendingErr, events,
                 settled, returned, callError, abortCall>>

\* The queue is empty: the length check throws the cycle error, which the outer
\* catch of executeWorkflow turns into the result, or the node loop begins.
EngineOrderDone ==
  /\ Eng.pc = "ordering"
  /\ Eng.queue = <<>>
  /\ engine' = IF Len(Eng.order) < Len(nodes)
                 THEN <<[Eng EXCEPT
                           !.pc = "returned",
                           !.result = <<[success |-> FALSE,
                                         errors |-> <<[nodeId |-> "system",
                                                       message |-> "Cycle detected in workflow graph"]>>]>>]>>
                 ELSE <<[Eng EXCEPT !.pc = "loop", !.i = 1]>>
  /\ UNCHANGED <<levelMap, triggerSystem, store, snapshot, validation, nodes, edges, sortedNodes,
                 executionOrder, isExecuting, context, pc, cur, inputs, pendingErr, events,
                 settled, returned, callError, abortCall>>

\* The head of the for loop: an id that is no node is skipped, a node is marked
\* running by executeNode.
EngineStartNode ==
  /\ Eng.pc = "loop"
  /\ Eng.i <= Len(Eng.order)
  /\ engine' = IF FindNode(nodes, Eng.order[Eng.i]) = <<>>
                 THEN <<[Eng EXCEPT !.i = @ + 1]>>
                 ELSE <<[Eng EXCEPT
                           !.pc = "node",
                           !.nodeResults = updateNodeResult(@, Eng.order[Eng.i], "running")]>>
  /\ UNCHANGED <<levelMap, triggerSystem, store, snapshot, validation, nodes, edges, sortedNodes,
                 executionOrder, isExecuting, context, pc, cur, inputs, pendingErr, events,
                 settled, returned, callError, abortCall>>

EngineCurId == Eng.order[Eng.i]

EngineCurNode == FindNode(nodes, EngineCurId)[1]

\* executeNode stores the success result and returns.
EngineNodeSucceeds(output) ==
  /\ engine' = <<[Eng EXCEPT
                    !.pc = "loop",
                    !.i = @ + 1,
                    !.nodeResults = MapSet(@, EngineCurId,
                                           [nodeId |-> EngineCurId, status |-> "success",
                                            output |-> output, error |-> None])]>>
  /\ UNCHANGED <<levelMap, triggerSystem, store, snapshot, validation, nodes, edges, sortedNodes,
                 executionOrder, isExecuting, context, pc, cur, inputs, pendingErr, events,
                 settled, returned, callError, abortCall>>

\* A node without handler (this.handlers.get(node.data.type) finds none for the
\* types HasHandler does not know): output = {...node.data, input: inputData}.
EngineDefaultOutput ==
  /\ Eng.pc = "node"
  /\ ~HasHandler(EngineCurNode)
  /\ EngineNodeSucceeds([data |-> EngineCurNode.data,
                         input |-> getInputData(Eng.nodeResults, EngineCurId, edges)])

\* The handler's promise resolves with some output.
EngineHandlerResolves(d) ==
  /\ Eng.pc = "node"
  /\ HasHandler(EngineCurNode)
  /\ EngineNodeSucceeds(HandlerResult(EngineCurNode, d))

\* The handler's promise rejects.  The catch of executeNode reads error.message,
\* stores the error result and rethrows; executeWorkflow appends to errors.
\* Reading error.message of null throws a TypeError before the result is
\* stored, and that TypeError is what executeWorkflow catches.
EngineHandlerRejects(rejection) ==
  /\ Eng.pc = "node"
  /\ HasHandler(EngineCurNode)
  /\ engine' =
       IF rejection = "null"
         THEN <<[Eng EXCEPT
                   !.pc = "loop",
                   !.i = @ + 1,
                   !.errors = Append(@, [nodeId |-> EngineCurId, message |-> "TypeError"])]>>
         ELSE <<[Eng EXCEPT
                   !.pc = "loop",
                   !.i = @ + 1,
                   !.nodeResults = MapSet(@, EngineCurId,
                                          [nodeId |-> EngineCurId, status |-> "error",
                                           output |-> NullData, error |-> "handler failed"]),
                   !.errors = Append(@, [nodeId |-> EngineCurId,
                                         message |-> "handler failed"])]>>
  /\ UNCHANGED <<levelMap, triggerSystem, store, snapshot, validation, nodes, edges, sortedNodes,
                 executionOrder, isExecuting, context, pc, cur, inputs, pendingErr, events,
                 settled, returned, callError, abortCall>>

\* The for loop is over: executeWorkflow returns its result.
EngineReturn ==
  /\ Eng.pc = "loop"
  /\ Eng.i > Len(Eng.order)
  /\ engine' = <<[Eng EXCEPT
                    !.pc = "returned",
                    !.result = <<[success |-> Eng.errors = <<>>, errors |-> Eng.errors]>>]>>
  /\ UNCHANGED <<levelMap, triggerSystem, store, snapshot, validation, nodes, edges, sortedNodes,
                 executionOrder, isExecuting, context, pc, cur, inputs, pendingErr, events,
                 settled, returned, callError, abortCall>>

EngineInit ==
  /\ nodes \in {ns \in BSeq({MkNode(id, TypeOf(id)) : id \in NodeIds}, MaxEngineNodes) :
                  UniqueIds(ns)}
  /\ edges \in BSeq(EdgePool, MaxEngineEdges)
  /\ sortedNodes = <<>>
  /\ executionOrder = <<>>
  /\ isExecuting = FALSE
  /\ context = <<>>
  /\ pc = "idle"
  /\ cur = 0
  /\ inputs = EmptyMap
  /\ pendingErr = NoError
  /\ events = <<>>
  /\ settled = "none"
  /\ returned = EmptyMap
  /\ callError = None
  /\ abortCall = NoAbort
  /\ validation = <<>>
  /\ snapshot = <<>>
  /\ store = <<>>
  /\ engine = <<NewEngine>>
  /\ triggerSystem = <<>>
  /\ levelMap = <<>>

EngineNext ==
  \/ \E entry \in {None} \cup NodeIds : EngineExecuteWorkflow(entry)
  \/ EngineOrderStep
  \/ EngineOrderDone
  \/ EngineStartNode
  \/ EngineDefaultOutput
  \/ \E d \in DataVals : EngineHandlerResolves(d)
  \/ \E rejection \in Rejections : EngineHandlerRejects(rejection)
  \/ EngineReturn

EngineSpec == EngineInit /\ [][EngineNext]_vars

\* getExecutionOrder is synchronous: once called, its queue loop runs on as
\* long as it has a step to take.
EngineLiveSpec == EngineSpec /\ WF_vars(EngineOrderStep) /\ WF_vars(EngineOrderDone)

(***************************************************************************)
(* TriggerSystem (index.tsx).  Every method is synchronous up to the        *)
(* awaited runWorkflow, which resolves at once, so a call of executeTrigger *)
(* is one step with its history entry.  Timers expire at any time.  Each    *)
(* registerTrigger call passes a new trigger object.  Dates, logs and the   *)
(* cron arithmetic are not modelled.                                        *)
(***************************************************************************)
TriggerIds == {"t1", "t2"}

EventTypes == {"e1"}

\* The executions the model follows.
MaxHistory == 3

\* executionHistory keeps the last 100 executions.
HistoryLimit == 100

MkTrigger(id, type, enabled, cron, eventType) ==
  [id |-> id, type |-> type, enabled |-> enabled,
   config |-> [cron |-> cron, eventType |-> eventType]]

\* The triggers a caller registers: a schedule with or without cron
\* expression, an event trigger with or without event type, a webhook.
TriggerPool ==
  {MkTrigger(id, "schedule", en, c, None) :
     id \in TriggerIds, en \in BOOLEAN, c \in {"* * * * *", None}}
  \cup {MkTrigger(id, "event", en, None, e) :
          id \in TriggerIds, en \in BOOLEAN, e \in EventTypes \cup {None}}
  \cup {MkTrigger(id, "webhook", en, None, None) : id \in TriggerIds, en \in BOOLEAN}

\* triggers: id -> the registered trigger object.  timers: id -> the timer set
\* last for the id; pending says that it has neither fired nor been cleared,
\* registered that the trigger object its callback holds is the one in
\* triggers, and enabled is the flag of that object when it is another one.
\* eventListeners: event type -> the ids in insertion order.
NewTriggerSystem ==
  [triggers |-> EmptyMap, timers |-> EmptyMap, eventListeners |-> EmptyMap,
   executionHistory |-> <<>>]

TS == triggerSystem[1]

\* Map.prototype.delete.
MapDelete(m, k) == [x \in DOMAIN m \ {k} |-> m[x]]

\* scheduleNext(trigger) for the registered trigger object: without cron
\* expression it returns (an expression that does not parse ends the same
\* way); otherwise the new timer replaces the one of the id.
scheduleNext(ts, trigger) ==
  IF trigger.config.cron = None THEN ts
  ELSE [ts EXCEPT !.timers = MapSet(@, trigger.id,
                                    [pending |-> TRUE, registered |-> TRUE,
                                     enabled |-> TRUE])]

registerEventListener(ts, trigger) ==
  IF trigger.config.eventType = None THEN ts
  ELSE LET eventType == trigger.config.eventType
           listeners == IF eventType \in DOMAIN ts.eventListeners
                          THEN ts.eventListeners[eventType] ELSE <<>>
       IN [ts EXCEPT !.eventListeners =
             MapSet(@, eventType,
                    IF trigger.id \in Range(listeners) THEN listeners
                    ELSE Append(listeners, trigger.id))]

enableTrigger(ts, triggerId) ==
  IF triggerId \notin DOMAIN ts.triggers THEN ts
  ELSE LET on == [ts EXCEPT !.triggers[triggerId].enabled = TRUE]
           trigger == on.triggers[triggerId]
       IN CASE trigger.type = "schedule" -> scheduleNext(on, trigger)
            [] trigger.type = "event" -> registerEventListener(on, trigger)
            [] OTHER -> on

\* disableTrigger: the timer of the id is cleared and removed, and the id is
\* taken from the listeners of the event type of the registered trigger.
disableTrigger(ts, triggerId) ==
  IF triggerId \notin DOMAIN ts.triggers THEN ts
  ELSE LET trigger == ts.triggers[triggerId]
           eventType == trigger.config.eventType
       IN [ts EXCEPT
             !.triggers[triggerId].enabled = FALSE,
             !.timers = MapDelete(@, triggerId),
             !.eventListeners =
               IF trigger.type = "event" /\ eventType # None /\ eventType \in DOMAIN @
                 THEN [@ EXCEPT ![eventType] =
                         SelectSeq(@, LAMBDA id : id # triggerId)]
                 ELSE @]

\* registerTrigger: triggers.set replaces the object of the id; a timer of the
\* id keeps the object it was set for.
registerTrigger(ts, trigger) ==
  LET id == trigger.id
      timers == IF id \in DOMAIN ts.timers /\ ts.timers[id].registered
                  THEN [ts.timers EXCEPT ![id].registered = FALSE,
                                         ![id].enabled = ts.triggers[id].enabled]
                  ELSE ts.timers
      set == [ts EXCEPT !.triggers = MapSet(@, id, trigger), !.timers = timers]
  IN IF trigger.enabled THEN enableTrigger(set, id) ELSE set

unregisterTrigger(ts, triggerId) ==
  [disableTrigger(ts, triggerId) EXCEPT !.triggers = MapDelete(@, triggerId)]

\* executeTrigger: nothing for an id that is not registered; otherwise the
\* workflow runs and the execution is appended to the history.
executeTrigger(ts, triggerId) ==
  IF triggerId \notin DOMAIN ts.triggers THEN ts
  ELSE LET history == Append(ts.executionHistory,
                             [triggerId |-> triggerId, success |-> TRUE])
       IN [ts EXCEPT !.executionHistory =
             IF Len(history) > HistoryLimit THEN Tail(history) ELSE history]

RECURSIVE ExecuteTriggers(_, _)
ExecuteTriggers(ts, ids) ==
  IF ids = <<>> THEN ts
  ELSE ExecuteTriggers(executeTrigger(ts, Head(ids)), Tail(ids))

fireEvent(ts, eventType) ==
  IF eventType \notin DOMAIN ts.eventListeners THEN ts
  ELSE ExecuteTriggers(ts, ts.eventListeners[eventType])

\* The callback of the timer of an id: executeTrigger(trigger.id), then
\* scheduleNext(trigger) if the trigger object the callback holds is enabled.
TimerCallback(ts, triggerId) ==
  LET timer == ts.timers[triggerId]
      executed == executeTrigger(ts, triggerId)
      enabled == IF timer.registered THEN ts.triggers[triggerId].enabled
                 ELSE timer.enabled
  IN [executed EXCEPT !.timers[triggerId].pending = enabled]

shutdown(ts) ==
  [ts EXCEPT !.timers = EmptyMap, !.eventListeners = EmptyMap, !.triggers = EmptyMap]

TriggerInit ==
  /\ nodes = <<>>
  /\ edges = <<>>
  /\ sortedNodes = <<>>
  /\ executionOrder = <<>>
  /\ isExecuting = FALSE
  /\ context = <<>>
  /\ pc = "idle"
  /\ cur = 0
  /\ inputs = EmptyMap
  /\ pendingErr = NoError
  /\ events = <<>>
  /\ settled = "none"
  /\ returned = EmptyMap
  /\ callError = None
  /\ abortCall = NoAbort
  /\ validation = <<>>
  /\ snapshot = <<>>
  /\ store = <<>>
  /\ engine = <<>>
  /\ triggerSystem = <<NewTriggerSystem>>
  /\ levelMap = <<>>

RegisterTrigger(trigger) ==
  /\ triggerSystem' = <<registerTrigger(TS, trigger)>>
  /\ UNCHANGED <<levelMap, engine, store, snapshot, validation, nodes, edges, sortedNodes,
                 executionOrder, isExecuting, context, pc, cur, inputs, pendingErr, events,
                 settled, returned, callError, abortCall>>

UnregisterTrigger(triggerId) ==
  /\ triggerSystem' = <<unregisterTrigger(TS, triggerId)>>
  /\ UNCHANGED <<levelMap, engine, store, snapshot, validation, nodes, edges, sortedNodes,
                 executionOrder, isExecuting, context, pc, cur, inputs, pendingErr, events,
                 settled, returned, callError, abortCall>>

EnableTrigger(triggerId) ==
  /\ triggerSystem' = <<enableTrigger(TS, triggerId)>>
  /\ UNCHANGED <<levelMap, engine, store, snapshot, validation, nodes, edges, sortedNodes,
                 executionOrder, isExecuting, context, pc, cur, inputs, pendingErr, events,
                 settled, returned, callError, abortCall>>

DisableTrigger(triggerId) ==
  /\ triggerSystem' = <<disableTrigger(TS, triggerId)>>
  /\ UNCHANGED <<levelMap, engine, store, snapshot, validation, nodes, edges, sortedNodes,
                 executionOrder, isExecuting, context, pc, cur, inputs, pendingErr, events,
                 settled, returned, callError, abortCall>>

FireEvent(eventType) ==
  /\ eventType \in DOMAIN TS.eventListeners
  /\ Len(TS.executionHistory) + Len(TS.eventListeners[eventType]) <= MaxHistory
  /\ triggerSystem' = <<fireEvent(TS, eventType)>>
  /\ UNCHANGED <<levelMap, engine, store, snapshot, validation, nodes, edges, sortedNodes,
                 executionOrder, isExecuting, context, pc, cur, inputs, pendingErr, events,
                 settled, returned, callError, abortCall>>

\* The pending timer of an id expires.
TimerExpires(triggerId) ==
  /\ triggerId \in DOMAIN TS.timers
  /\ TS.timers[triggerId].pending
  /\ Len(TS.executionHistory) < MaxHistory
  /\ triggerSystem' = <<TimerCallback(TS, triggerId)>>
  /\ UNCHANGED <<levelMap, engine, store, snapshot, validation, nodes, edges, sortedNodes,
                 executionOrder, isExecuting, context, pc, cur, inputs, pendingErr, events,
                 settled, returned, callError, abortCall>>

Shutdown ==
  /\ triggerSystem' = <<shutdown(TS)>>
  /\ UNCHANGED <<levelMap, engine, store, snapshot, validation, nodes, edges, sortedNodes,
                 executionOrder, isExecuting, context, pc, cur, inputs, pendingErr, events,
                 settled, returned, callError, abortCall>>

TriggerNext ==
  \/ \E triggerId \in TriggerIds : EnableTrigger(triggerId)
  \/ \E trigger \in TriggerPool : RegisterTrigger(trigger)
  \/ \E triggerId \in TriggerIds : UnregisterTrigger(triggerId)
  \/ \E triggerId \in TriggerIds : DisableTrigger(triggerId)
  \/ \E eventType \in EventTypes : FireEvent(eventType)
  \/ \E triggerId \in TriggerIds : TimerExpires(triggerId)
  \/ Shutdown

TriggerSpec == TriggerInit /\ [][TriggerNext]_vars

(***************************************************************************)
(* Graph properties, defined on the edge relation and not by the code.     *)
(***************************************************************************)
Successors(S, es) == S \cup {es[i].target : i \in {j \in 1..Len(es) : es[j].source \in S}}

RECURSIVE ReachFrom(_, _, _)
ReachFrom(S, es, k) == IF k = 0 THEN S ELSE ReachFrom(Successors(S, es), es, k - 1)

\* The ids reachable from id by at least one edge.
Descendants(id, es) ==
  ReachFrom({es[i].target : i \in {j \in 1..Len(es) : es[j].source = id}}, es, Len(es))

HasDirectedCycle(es) == \E i \in 1..Len(es) : es[i].source \in Descendants(es[i].source, es)

NoDanglingEdge(ns, es) ==
  \A i \in 1..Len(es) : es[i].source \in IdSet(ns) /\ es[i].target \in IdSet(ns)

\* The edges whose two endpoints are nodes of the graph.
EdgesAmong(ns, es) ==
  SelectSeq(es, LAMBDA e : e.source \in IdSet(ns) /\ e.target \in IdSet(ns))

\* The graph has a directed cycle through its nodes (self-loops included).
CycleAmongNodes(ns, es) == HasDirectedCycle(EdgesAmong(ns, es))

\* Some id lies on a directed cycle and is a node of the graph or reachable from
\* one along the edges.
CycleReachableFromNodes(ns, es) ==
  \E i \in 1..Len(es) :
    /\ es[i].source \in Descendants(es[i].source, es)
    /\ \/ es[i].source \in IdSet(ns)
       \/ \E n \in IdSet(ns) : es[i].source \in Descendants(n, es)

\* Consecutive ids of path are joined by an edge.
IsEdgePath(path, es) ==
  \A k \in 1..(Len(path) - 1) :
    \E i \in 1..Len(es) : es[i].source = path[k] /\ es[i].target = path[k + 1]

WellFormed(ns, es) == UniqueIds(ns) /\ NoDanglingEdge(ns, es) /\ ~HasDirectedCycle(es)

IsPermutationOf(s, t) ==
  /\ Len(s) = Len(t)
  /\ \A x \in Range(s) \cup Range(t) :
       Cardinality({i \in 1..Len(s) : s[i] = x}) = Cardinality({i \in 1..Len(t) : t[i] = x})

RespectsEdges(order, es) ==
  \A i \in 1..Len(es) :
    /\ IndexOf(order, es[i].source) > 0
    /\ IndexOf(order, es[i].source) < IndexOf(order, es[i].target)

(***************************************************************************)
(* Claims about TopologicalSort (SortSpec).                                *)
(***************************************************************************)

\* C1: for an acyclic graph with unique node ids and no dangling edges, sort
\* followed by getExecutionOrder returns a permutation of the node ids in which
\* the source of every edge comes strictly before its target.
C1_SortIsTopologicalOrder ==
  (pc = "ordered" /\ WellFormed(nodes, edges)) =>
    /\ IsPermutationOf(executionOrder, Ids(nodes))
    /\ RespectsEdges(executionOrder, edges)

\* The fan-in graph A->C, B->C, listed C first: A and B precede C.
C1_Witness ==
  /\ pc = "ordered"
  /\ Ids(nodes) = <<"C", "A", "B">>
  /\ edges = <<MkEdge("A", "C"), MkEdge("B", "C")>>
  /\ executionOrder = <<"A", "B", "C">>

\* On a graph with a cycle through its nodes, sort emits strictly fewer nodes
\* than it was given.
CycleLeavesDeficit ==
  (pc \in {"sorted", "ordered"} /\ CycleAmongNodes(nodes, edges)) =>
    Len(sortedNodes) < Len(nodes)

\* C12: on a graph with a directed cycle, sort emits strictly fewer nodes than
\* were supplied and the deficit is reported as a failure: sort does not return
\* a partial order without an error being raised.
C12_CycleDeficitReported ==
  (pc \in {"sorted", "ordered"} /\ CycleAmongNodes(nodes, edges)) =>
    /\ Len(sortedNodes) < Len(nodes)
    /\ pendingErr # NoError

(***************************************************************************)
(* Claims about GraphExecutor (Spec).                                      *)
(***************************************************************************)
Count(ev, cb) == Cardinality({i \in 1..Len(ev) : ev[i].cb = cb})

\* The number of onNodeExecute calls among the first i events.
Dispatched(i) == Cardinality({j \in 1..i : events[j].cb = "onNodeExecute"})

IsCallbackError(err) == err.kind = "callback threw"

IsHandlerError(err) == err.kind = "Handler execution failed for node type"

\* Some option callback has thrown during the accepted call.
CallbackHasThrown ==
  \/ IsCallbackError(pendingErr)
  \/ \E i \in 1..Len(events) :
       events[i].cb \in {"onNodeError", "onError"} /\ IsCallbackError(events[i].arg)

\* C2: nodes are dispatched one at a time in topological order: while a handler
\* is in flight, the handler of every node dispatched earlier has settled with
\* onNodeComplete, the nodes dispatched so far are a prefix of an order that
\* respects every edge, and every source of an edge into the node in flight is
\* recorded in the context as completed without error.
C2_OneAtATimeInDependencyOrder ==
  pc = "awaitHandler" =>
    /\ events[Len(events)].cb = "onNodeExecute"
    /\ events[Len(events)].node = CurId
    /\ \A i \in 1..(Len(events) - 1) :
         events[i].cb = "onNodeExecute" =>
           /\ events[i].node # CurId
           /\ events[i + 1].cb = "onNodeComplete"
           /\ events[i + 1].node = events[i].node
    /\ Dispatched(Len(events)) = cur
    /\ \A i \in 1..Len(events) :
         events[i].cb = "onNodeExecute" => events[i].node = executionOrder[Dispatched(i)]
    /\ RespectsEdges(executionOrder, edges)
    /\ \A i \in 1..Len(edges) :
         edges[i].target = CurId =>
           /\ edges[i].source \in DOMAIN Ctx.outputs
           /\ Ctx.outputs[edges[i].source].error = NoError
           /\ edges[i].source \in Range(Ctx.progress.completed)

\* The handler of C is in flight in the fan-in graph A->C, B->C.
C2_Witness ==
  /\ pc = "awaitHandler"
  /\ CurId = "C"
  /\ edges = <<MkEdge("A", "C"), MkEdge("B", "C")>>
  /\ DOMAIN inputs = {"A", "B"}

\* C3: when validation reports an error, execute invokes onError with the
\* aggregated validation errors and rejects, and no node runs: no context is
\* created and no callback other than onError is invoked.
C3_ValidationFailureRunsNothing ==
  (settled # "none" /\ ~validateGraph(nodes, edges).valid) =>
    /\ Len(events) >= 1
    /\ \A i \in 1..Len(events) : events[i].cb = "onError"
    /\ events[1].arg = ValidationFailed(validateGraph(nodes, edges).errors)
    /\ Len(events[1].arg.detail) >= 1
    /\ context = <<>>
    /\ pc \in {"onErrorValidation", "onError", "idle"}
    /\ pc = "idle" =>
         /\ settled = "rejected"
         /\ ~IsCallbackError(pendingErr) =>
              pendingErr = ValidationFailed(validateGraph(nodes, edges).errors)

\* The cyclic graph A->B, B->A has been rejected.
C3_Witness ==
  /\ Ids(nodes) = <<"A", "B">>
  /\ edges = <<MkEdge("A", "B"), MkEdge("B", "A")>>
  /\ pc = "idle"
  /\ settled = "rejected"
  /\ pendingErr = ValidationFailed(<<ValidationError("GRAPH_CYCLE_DETECTED", <<"A", "B", "A">>)>>)

\* The onNodeError calls that report a handler failure.
HandlerFailures ==
  {i \in 1..Len(events) : events[i].cb = "onNodeError" /\ IsHandlerError(events[i].arg)}

\* C4: fail-fast.  Once the handler of node k has failed, the error is recorded
\* for k, onNodeError(k, err) has fired, only onError follows it, no node after k
\* is dispatched, k was dispatched once, onComplete is not called and the call
\* rejects.
C4_FailFast ==
  \A i \in HandlerFailures :
    /\ events[i].node \in DOMAIN Ctx.outputs
    /\ Ctx.outputs[events[i].node].error = events[i].arg
    /\ Ctx.outputs[events[i].node].data = NullData
    /\ events[i].node \in Range(Ctx.progress.failed)
    /\ Cardinality({j \in 1..Len(events) :
         events[j].cb = "onNodeExecute" /\ events[j].node = events[i].node}) = 1
    /\ \A j \in (i + 1)..Len(events) : events[j].cb = "onError"
    /\ \A n \in Range(Ctx.progress.remaining) :
         \A j \in 1..Len(events) : events[j].node # n
    /\ pc \in {"onNodeError", "onError", "idle"}
    /\ pc # "onNodeError" => Len(events) = i + 1
    /\ pc = "idle" => settled = "rejected"

\* A completed, the handler of C failed and the call rejected without B being
\* dispatched.
C4_Witness ==
  /\ pc = "idle"
  /\ settled = "rejected"
  /\ HandlerFailures # {}
  /\ Ctx.progress.completed = <<"A">>
  /\ Ctx.progress.failed = <<"C">>
  /\ Ctx.progress.remaining = <<"B">>

IsPrefix(s, t) == Len(s) <= Len(t) /\ SubSeq(t, 1, Len(s)) = s

\* C5: single-flight.  A pass is in flight exactly while isExecuting is set; an
\* execute() call made then throws the already-running error and leaves
\* isRunning() true and the pass, its context and its callbacks untouched; and
\* while a pass is in flight no step starts another one (the callbacks of the
\* pass in flight are only ever added to).
C5_SingleFlight ==
  /\ [](isRunning <=> settled = "pending")
  /\ [](isRunning <=> pc # "idle")
  /\ [][(callError' = AlreadyRunning /\ callError # AlreadyRunning) =>
          /\ isExecuting
          /\ isExecuting'
          /\ UNCHANGED <<context, pc, cur, events, settled, sortedNodes, executionOrder,
                         inputs, pendingErr, returned, abortCall>>]_vars
  /\ [][isExecuting => (IsPrefix(events, events') /\ executionOrder' = executionOrder)]_vars

\* An execute() call was rejected while the handler of the second node was in
\* flight.
C5_Witness ==
  /\ isRunning
  /\ callError = AlreadyRunning
  /\ pc = "awaitHandler"
  /\ cur = 2

\* C6: when abort() is called after a node has completed and before the next
\* one starts, no later node is dispatched, no onNodeError fires (unless a
\* callback throws) and onComplete is not called with results for all nodes.
C6_AbortStopsLaterNodes ==
  (context # <<>> /\ abortCall.at \in {"onNodeComplete", "onProgress"}) =>
    /\ isAborted(Ctx)
    /\ pc \notin {"onNodeExecute", "awaitHandler"}
    /\ \A j \in (abortCall.seen + 1)..Len(events) :
         /\ events[j].cb \notin {"onNodeExecute", "onNodeComplete"}
         /\ events[j].cb = "onNodeError" => IsCallbackError(events[j].arg)
         /\ (events[j].cb = "onComplete" /\ Ctx.progress.remaining # <<>>) =>
              /\ DOMAIN events[j].arg # IdSet(nodes)
              /\ DOMAIN events[j].arg = Range(Ctx.progress.completed)
    /\ Dispatched(Len(events)) = Dispatched(abortCall.seen)
    /\ \A n \in Range(Ctx.progress.remaining) : n \notin DOMAIN Ctx.outputs

\* In the chain A->B->C, abort() was called during onNodeComplete of A: the pass
\* left the loop without dispatching B and C.
C6_Witness ==
  /\ Ids(nodes) = <<"A", "B", "C">>
  /\ edges = <<MkEdge("A", "B"), MkEdge("B", "C")>>
  /\ abortCall = [at |-> "onNodeComplete", seen |-> 2]
  /\ pc = "onComplete"
  /\ Ctx.progress.remaining = <<"B", "C">>
  /\ Count(events, "onNodeExecute") = 1

\* C7: abort() called while the handler of node k is in flight does not
\* interrupt it: once the call has settled without a callback throwing, k's
\* result is recorded, its onNodeComplete or onNodeError has fired followed by
\* onProgress, and no node after k was dispatched.
C7_AbortIsCooperative ==
  (context # <<>> /\ abortCall.at = "awaitHandler" /\ pc = "idle"
     /\ ~CallbackHasThrown) =>
    LET k == events[abortCall.seen].node
    IN /\ k \in DOMAIN Ctx.outputs
       /\ abortCall.seen + 2 <= Len(events)
       /\ events[abortCall.seen + 1].cb \in {"onNodeComplete", "onNodeError"}
       /\ events[abortCall.seen + 1].node = k
       /\ events[abortCall.seen + 2].cb = "onProgress"
       /\ Dispatched(Len(events)) = Dispatched(abortCall.seen)

\* The pass left the loop at the abort check: the flag was set during the pass,
\* before the check, and nodes remain that were never dispatched.
EndedByAbort ==
  /\ context # <<>>
  /\ isAborted(Ctx)
  /\ abortCall.at \in {"onNodeExecute", "awaitHandler", "onNodeComplete", "onProgress"}
  /\ Ctx.progress.failed = <<>>
  /\ Ctx.progress.remaining # <<>>
  /\ pc \in {"onComplete", "onError", "idle"}
  /\ ~CallbackHasThrown

\* C8: an aborted pass ends in an outcome distinct from Failed and from
\* Completed: no onError and no rejection, and no onComplete and no normal
\* return either.
C8_AbortedIsDistinctOutcome ==
  EndedByAbort =>
    /\ Count(events, "onError") = 0
    /\ settled # "rejected"
    /\ Count(events, "onComplete") = 0
    /\ settled # "resolved"

\* C9: callbacks fire per node in execution order without interleaving:
\* onNodeExecute(nk) follows the onProgress of n(k-1); onNodeComplete(nk) or
\* onNodeError(nk) follows onNodeExecute(nk); onProgress follows
\* onNodeComplete(nk) and carries completed \cup failed = {n1..nk} and
\* remaining = <<n(k+1)..nm>>.
C9_CallbackOrderAndProgress ==
  \A i \in 1..Len(events) :
    LET e == events[i]
        k == Dispatched(i)
    IN /\ e.cb = "onNodeExecute" =>
            /\ e.node = executionOrder[k]
            /\ i > 1 => (events[i - 1].cb = "onProgress" /\ Dispatched(i - 1) = k - 1)
       /\ e.cb = "onNodeComplete" =>
            /\ events[i - 1].cb = "onNodeExecute"
            /\ events[i - 1].node = e.node
       /\ e.cb = "onNodeError" =>
            /\ events[i - 1].cb \in {"onNodeExecute", "onNodeComplete"}
            /\ events[i - 1].node = e.node
       /\ e.cb = "onProgress" =>
            /\ events[i - 1].cb = "onNodeComplete"
            /\ e.arg.currentNodeId = executionOrder[k]
            /\ Range(e.arg.completed) \cup Range(e.arg.failed)
                 = Range(SubSeq(executionOrder, 1, k))
            /\ Len(e.arg.completed) + Len(e.arg.failed) = k
            /\ e.arg.remaining = SubSeq(executionOrder, k + 1, Len(executionOrder))
            /\ e.arg.totalNodes = Len(executionOrder)

\* onProgress after the second of three nodes: two done, one remaining.
C9_Witness ==
  /\ pc = "onProgress"
  /\ cur = 2
  /\ Len(executionOrder) = 3
  /\ events[Len(events)].arg.completed = SubSeq(executionOrder, 1, 2)
  /\ events[Len(events)].arg.remaining = SubSeq(executionOrder, 3, 3)

\* C10: onProgress is emitted after every node that was started, whatever its
\* outcome: once the call has settled without a callback throwing, every
\* onNodeExecute(k) is followed by onNodeComplete(k) or onNodeError(k) and then by
\* onProgress.
C10_ProgressAfterEveryNode ==
  (pc = "idle" /\ settled # "none" /\ ~CallbackHasThrown) =>
    \A i \in 1..Len(events) :
      events[i].cb = "onNodeExecute" =>
        /\ i + 2 <= Len(events)
        /\ events[i + 1].cb \in {"onNodeComplete", "onNodeError"}
        /\ events[i + 1].node = events[i].node
        /\ events[i + 2].cb = "onProgress"

\* C11: when every node of a validated graph has completed, no abort occurred
\* and no callback threw, onComplete was invoked exactly once, as the last
\* callback and right after the last onProgress, with a map whose keys are exactly
\* the node ids, each mapped to the node's recorded output data; the call
\* resolved with that map and onError was not invoked.
C11_CompletionDeliversAllOutputs ==
  (/\ context # <<>>
   /\ pc = "idle"
   /\ settled # "none"
   /\ abortCall = NoAbort
   /\ ~CallbackHasThrown
   /\ Range(Ctx.progress.completed) = IdSet(nodes)) =>
    /\ validateGraph(nodes, edges).valid
    /\ Count(events, "onComplete") = 1
    /\ events[Len(events)].cb = "onComplete"
    /\ events[Len(events) - 1].cb = "onProgress"
    /\ DOMAIN events[Len(events)].arg = IdSet(nodes)
    /\ \A id \in IdSet(nodes) :
         /\ id \in DOMAIN Ctx.outputs
         /\ events[Len(events)].arg[id] = Ctx.outputs[id].data
    /\ returned = events[Len(events)].arg
    /\ settled = "resolved"
    /\ Count(events, "onError") = 0

\* The chain A->B->C ran to the end: three outputs were returned.
C11_Witness ==
  /\ pc = "idle"
  /\ settled = "resolved"
  /\ abortCall = NoAbort
  /\ edges = <<MkEdge("A", "B"), MkEdge("B", "C")>>
  /\ Ctx.progress.completed = <<"A", "B", "C">>
  /\ DOMAIN returned = {"A", "B", "C"}
  /\ Count(events, "onComplete") = 1

\* The node ids for which setNodeOutput has recorded a result, one entry per
\* call: every call appends the id to completed or to failed.
Recorded == Ctx.progress.completed \o Ctx.progress.failed

\* C22: in a pass a terminal result is recorded for a node at most once: no node
\* id occurs twice in completed, twice in failed, or in both lists, whatever the
\* handler and the callbacks do.
C22_ResultRecordedOnce ==
  context # <<>> =>
    \A i, j \in 1..Len(Recorded) : Recorded[i] = Recorded[j] => i = j

\* As long as no callback throws, no node is recorded twice.
RecordedOnceUnlessCallbackThrows ==
  (context # <<>> /\ ~CallbackHasThrown) =>
    \A i, j \in 1..Len(Recorded) : Recorded[i] = Recorded[j] => i = j

(***************************************************************************)
(* Claims about GraphValidator (ValidatorSpec).                            *)
(***************************************************************************)
ErrorsOf(code) ==
  {k \in 1..Len(validation[1].errors) : validation[1].errors[k].code = code}

HasError(code) == ErrorsOf(code) # {}

HasDanglingEdge == ~NoDanglingEdge(nodes, edges)

\* Every edge whose source, or target, is no node has its NOT_FOUND error.
DanglingEdgesReported ==
  \A i \in 1..Len(edges) :
    /\ edges[i].source \notin IdSet(nodes) =>
         \E k \in ErrorsOf("EDGE_SOURCE_NOT_FOUND") :
           validation[1].errors[k].ref = <<edges[i].source>>
    /\ edges[i].target \notin IdSet(nodes) =>
         \E k \in ErrorsOf("EDGE_TARGET_NOT_FOUND") :
           validation[1].errors[k].ref = <<edges[i].target>>

\* C13: validateGraph reports GRAPH_CYCLE_DETECTED, and valid = false, exactly
\* when a directed cycle (self-loops included) lies on, or is reachable from, a
\* node of the graph; on a graph without dangling edges that is exactly when the
\* edges contain a directed cycle, so an acyclic graph never gets a cycle error,
\* in whatever order nodes and edges are listed.
C13_CycleErrorIffCycle ==
  pc = "validated" =>
    /\ HasError("GRAPH_CYCLE_DETECTED") <=> CycleReachableFromNodes(nodes, edges)
    /\ HasError("GRAPH_CYCLE_DETECTED") => ~validation[1].valid
    /\ Cardinality(ErrorsOf("GRAPH_CYCLE_DETECTED")) <= 1
    /\ NoDanglingEdge(nodes, edges) /\ Len(nodes) > 0 =>
         (HasError("GRAPH_CYCLE_DETECTED") <=> HasDirectedCycle(edges))
    /\ ~HasDirectedCycle(edges) => ~HasError("GRAPH_CYCLE_DETECTED")

\* The two-node cycle A->B, B->A, with B listed first, is reported from B.
C13_Witness ==
  /\ pc = "validated"
  /\ Ids(nodes) = <<"B", "A">>
  /\ edges = <<MkEdge("A", "B"), MkEdge("B", "A")>>
  /\ ~validation[1].valid
  /\ validation[1].errors = <<ValidationError("GRAPH_CYCLE_DETECTED", <<"B", "A", "B">>)>>

\* C14: the path carried by a GRAPH_CYCLE_DETECTED error is itself a cycle: its
\* first and last ids are equal and consecutive ids are joined by an edge.
C14_CyclePathIsCycle ==
  pc = "validated" =>
    \A k \in ErrorsOf("GRAPH_CYCLE_DETECTED") :
      LET path == validation[1].errors[k].ref
      IN /\ Len(path) >= 2
         /\ path[1] = path[Len(path)]
         /\ IsEdgePath(path, edges)

\* The reported path is at least a walk along the edges that ends by closing a
\* cycle: its last id occurs earlier in it.
CyclePathEndsInCycle ==
  pc = "validated" =>
    \A k \in ErrorsOf("GRAPH_CYCLE_DETECTED") :
      LET path == validation[1].errors[k].ref
      IN /\ Len(path) >= 2
         /\ \E j \in 1..(Len(path) - 1) : path[j] = path[Len(path)]
         /\ IsEdgePath(path, edges)

\* Every node has an id and a type.
NodesComplete(ns) == \A i \in 1..Len(ns) : ns[i].id # None /\ ns[i].type # None

\* Every port handle an edge names is a port its endpoint node declares.
HandlesDeclared(ns, es) ==
  \A i \in 1..Len(es) :
    /\ es[i].sourceHandle # None =>
         \E j \in 1..Len(ns) :
           /\ ns[j].id = es[i].source
           /\ ns[j].data.hasOutputs
           /\ es[i].sourceHandle \in ns[j].data.outputs
    /\ es[i].targetHandle # None =>
         \E j \in 1..Len(ns) :
           /\ ns[j].id = es[i].target
           /\ ns[j].data.hasInputs
           /\ es[i].targetHandle \in ns[j].data.inputs

PortErrorJustified(err) ==
  \/ /\ err.code = "EDGE_INVALID_SOURCE_PORT"
     /\ \E i \in 1..Len(edges) :
          /\ <<edges[i].sourceHandle>> = err.ref
          /\ FindNode(nodes, edges[i].source) # <<>>
          /\ FindNode(nodes, edges[i].source)[1].data.hasOutputs
          /\ edges[i].sourceHandle \notin FindNode(nodes, edges[i].source)[1].data.outputs
  \/ /\ err.code = "EDGE_INVALID_TARGET_PORT"
     /\ \E i \in 1..Len(edges) :
          /\ <<edges[i].targetHandle>> = err.ref
          /\ FindNode(nodes, edges[i].target) # <<>>
          /\ FindNode(nodes, edges[i].target)[1].data.hasInputs
          /\ edges[i].targetHandle \notin FindNode(nodes, edges[i].target)[1].data.inputs

\* C17: the port check is advisory: a port error is raised only for a handle
\* whose endpoint node declares port metadata none of whose ports has that
\* name; a handle on an endpoint without port metadata raises no port error.
C17_PortCheckIsAdvisory ==
  pc = "validated" =>
    \A k \in ErrorsOf("EDGE_INVALID_SOURCE_PORT") \cup ErrorsOf("EDGE_INVALID_TARGET_PORT") :
      PortErrorJustified(validation[1].errors[k])

\* Where the endpoint declares ports the check is as claimed: an edge into a
\* node that declares input ports gets EDGE_INVALID_TARGET_PORT exactly when its
\* handle names none of them.
PortCheckOnDeclaredPorts ==
  pc = "validated" =>
    \A i \in 1..Len(edges) :
      (/\ edges[i].targetHandle # None
       /\ FindNode(nodes, edges[i].target) # <<>>
       /\ FindNode(nodes, edges[i].target)[1].data.hasInputs) =>
        ((\E k \in 1..Len(validateEdge(edges[i], nodes)) :
            validateEdge(edges[i], nodes)[k].code = "EDGE_INVALID_TARGET_PORT")
         <=> edges[i].targetHandle \notin FindNode(nodes, edges[i].target)[1].data.inputs)

\* The structural irregularities that are errors: a node without id or type, a
\* duplicate id, a dangling edge, a cycle, a port handle that is not declared.
Irregular(ns, es) ==
  \/ ~NodesComplete(ns)
  \/ ~UniqueIds(ns)
  \/ ~NoDanglingEdge(ns, es)
  \/ CycleReachableFromNodes(ns, es)
  \/ ~HandlesDeclared(ns, es)

\* The ids of the nodes no edge touches.
Isolated(ns, es) ==
  SelectSeq(Ids(ns), LAMBDA id :
    \A i \in 1..Len(es) : es[i].source # id /\ es[i].target # id)

\* C18: valid is true exactly when the error list is empty, whatever the
\* warnings; a graph whose only irregularity is disconnected nodes gets the
\* disconnected-nodes warning, no error and valid = true.
C18_ValidIffNoErrors ==
  pc = "validated" =>
    /\ validation[1].valid <=> validation[1].errors = <<>>
    /\ (Len(nodes) >= 1 /\ ~Irregular(nodes, edges) /\ Isolated(nodes, edges) # <<>>) =>
         /\ validation[1].valid
         /\ validation[1].errors = <<>>
         /\ \E w \in 1..Len(validation[1].warnings) :
              validation[1].warnings[w] =
                [kind |-> "disconnected", ids |-> Isolated(nodes, edges)]

\* The edge A->B with C disconnected: one warning, no error, valid.
C18_Witness ==
  /\ pc = "validated"
  /\ Ids(nodes) = <<"A", "B", "C">>
  /\ NodesComplete(nodes)
  /\ edges = <<MkEdge("A", "B")>>
  /\ validation[1] = [valid |-> TRUE, errors |-> <<>>,
                       warnings |-> <<[kind |-> "disconnected", ids |-> <<"C">>]>>]

\* C19: a graph with no nodes gets valid = false and the single error
\* GRAPH_EMPTY, with no other check run (no edge error, no warning); for a graph
\* with nodes nothing short-circuits: the errors of every node, of every edge
\* and of the cycle check are all in the one result.
C19_OnlyEmptyShortCircuits ==
  pc = "validated" =>
    /\ Len(nodes) = 0 =>
         validation[1] = [valid |-> FALSE,
                          errors |-> <<ValidationError("GRAPH_EMPTY", <<>>)>>,
                          warnings |-> <<>>]
    /\ Len(nodes) >= 1 =>
         /\ ~HasError("GRAPH_EMPTY")
         /\ \A i \in 1..Len(nodes) :
              /\ nodes[i].type = None =>
                   \E k \in ErrorsOf("NODE_MISSING_TYPE") :
                     validation[1].errors[k].ref = <<nodes[i].id>>
              /\ (\E j \in 1..Len(nodes) : j # i /\ nodes[j].id = nodes[i].id) =>
                   \E k \in ErrorsOf("NODE_DUPLICATE_ID") :
                     validation[1].errors[k].ref = <<nodes[i].id>>
         /\ DanglingEdgesReported
         /\ CycleReachableFromNodes(nodes, edges) => HasError("GRAPH_CYCLE_DETECTED")

\* A node error, an edge error and the cycle error in one result.
C19_Witness ==
  /\ pc = "validated"
  /\ nodes = <<MkNode("A", "source"), MkNode("C", None)>>
  /\ edges = <<MkEdge("A", "A"), MkEdge("A", "B")>>
  /\ validation[1].errors =
       <<ValidationError("NODE_MISSING_TYPE", <<"C">>),
         ValidationError("EDGE_TARGET_NOT_FOUND", <<"B">>),
         ValidationError("GRAPH_CYCLE_DETECTED", <<"A", "A">>)>>

(***************************************************************************)
(* Claims about validation inside GraphExecutor.execute (Spec).            *)
(***************************************************************************)
\* C16 as stated: an edge whose source or target is no node of the graph makes
\* validation fail with EDGE_SOURCE_NOT_FOUND or EDGE_TARGET_NOT_FOUND
\* respectively, and execute dispatches no node of such a graph.
C16_DanglingEdgeReportedAndBlocks ==
  (settled # "none" /\ HasDanglingEdge) =>
    /\ ~validation[1].valid
    /\ DanglingEdgesReported
    /\ context = <<>>
    /\ Count(events, "onNodeExecute") = 0

\* C16, amended: in a graph with at least one node, an edge whose source or
\* target is no node of the graph makes validation fail with
\* EDGE_SOURCE_NOT_FOUND or EDGE_TARGET_NOT_FOUND respectively; execute
\* dispatches no node of any graph that has a dangling edge.
C16_DanglingEdgeBlocksExecution ==
  (settled # "none" /\ HasDanglingEdge) =>
    /\ ~validation[1].valid
    /\ Len(nodes) >= 1 => DanglingEdgesReported
    /\ context = <<>>
    /\ Count(events, "onNodeExecute") = 0
    /\ pc = "idle" => settled = "rejected"

\* The graph of node A with the edge A->B, whose target is no node, was rejected.
C16_Witness ==
  /\ Ids(nodes) = <<"A">>
  /\ edges = <<MkEdge("A", "B")>>
  /\ pc = "idle"
  /\ settled = "rejected"
  /\ validation[1].errors = <<ValidationError("EDGE_TARGET_NOT_FOUND", <<"B">>)>>
  /\ Count(events, "onNodeExecute") = 0

(***************************************************************************)
(* Claims about ExecutionContext (ContextSpec).                            *)
(***************************************************************************)
\* The source of edge e has a recorded output without error.
SourceSucceeded(e) ==
  e.source \in DOMAIN Ctx.outputs /\ Ctx.outputs[e.source].error = NoError

\* C20: the mapping returned by getNodeInputs(v, edges) holds a value only for
\* incoming edges u->v whose source u has a recorded output without error: every
\* key is the key of such an edge and carries that source's data; a source that
\* failed or has no recorded output adds no key (a handle-less edge from it
\* leaves its id absent), and no value is the null data of a failed node.
C20_FailedSourceGivesNoInput ==
  pc = "inputs" =>
    /\ \A k \in DOMAIN inputs :
         /\ \E i \in 1..Len(edges) :
              /\ edges[i].target = executionOrder[cur]
              /\ InputKey(edges[i]) = k
              /\ SourceSucceeded(edges[i])
              /\ inputs[k] = Ctx.outputs[edges[i].source].data
         /\ inputs[k] # NullData
    /\ \A i \in 1..Len(edges) :
         (edges[i].target = executionOrder[cur] /\ ~SourceSucceeded(edges[i])) =>
           /\ edges[i].source \notin DOMAIN inputs
           /\ (\A j \in 1..Len(edges) :
                 (edges[j].target = executionOrder[cur] /\ InputKey(edges[j]) = InputKey(edges[i]))
                   => ~SourceSucceeded(edges[j]))
                => InputKey(edges[i]) \notin DOMAIN inputs

\* A failed and B completed, both with an edge into C: the inputs of C hold B's
\* output only.
C20_Witness ==
  /\ pc = "inputs"
  /\ executionOrder[cur] = "C"
  /\ edges = <<MkEdge("A", "C"), MkEdge("B", "C")>>
  /\ Ctx.progress.failed = <<"A">>
  /\ Ctx.progress.completed = <<"B">>
  /\ DOMAIN inputs = {"B"}
  /\ inputs["B"] = Ctx.outputs["B"].data

\* The key the claim gives an edge: its targetHandle if set, otherwise its
\* sourceHandle if set, otherwise its source id.
ClaimedKey(e) ==
  CASE e.targetHandle # None -> e.targetHandle
    [] e.targetHandle = None /\ e.sourceHandle # None -> e.sourceHandle
    [] OTHER -> e.source

\* The incoming edges of the node asked for whose source succeeded.
SuccessfulIncoming ==
  {i \in 1..Len(edges) : edges[i].target = executionOrder[cur] /\ SourceSucceeded(edges[i])}

\* C21: the keys of the mapping returned by getNodeInputs are exactly the keys
\* of the incoming edges with a successful source, each edge keyed by its
\* targetHandle if set, otherwise its sourceHandle if set, otherwise its source
\* id; a handle-less edge is keyed by its source id and carries that source's
\* data.
C21_InputKeyResolution ==
  pc = "inputs" =>
    /\ DOMAIN inputs = {ClaimedKey(edges[i]) : i \in SuccessfulIncoming}
    /\ \A i \in SuccessfulIncoming :
         (edges[i].targetHandle = None /\ edges[i].sourceHandle = None) =>
           /\ edges[i].source \in DOMAIN inputs
           /\ inputs[edges[i].source] = Ctx.outputs[edges[i].source].data

\* B completed; the inputs of C hold, under "in", the output that reached it by
\* the edge B->C with sourceHandle "out" and targetHandle "in", and under "A"
\* nothing, A having no output.
C21_Witness ==
  /\ pc = "inputs"
  /\ executionOrder[cur] = "C"
  /\ edges = <<MkHandleEdge("B", "C", "out", "in"), MkEdge("A", "C")>>
  /\ Ctx.progress.completed = <<"B">>
  /\ DOMAIN inputs = {"in"}
  /\ inputs["in"] = Ctx.outputs["B"].data

(***************************************************************************)
(* Claims about progress objects and clear (ProgressSpec).                 *)
(***************************************************************************)
\* C23: a progress value returned by getProgress() is an independent snapshot:
\* no later call on the context changes what the holder of the value reads from
\* it, and a write by the holder to the value or to one of its lists changes
\* nothing in the context.
C23_ProgressIsSnapshot ==
  [][snapshot # <<>> =>
       /\ pc' \notin {"progress", "caller"} => snapshot'[1].value = snapshot[1].value
       /\ pc' = "caller" => context' = context]_vars

\* The part of C23 that {...this.progress} does give: currentNodeId and
\* totalNodes of a returned value are copies, in both directions.
ProgressScalarsAreCopied ==
  [][snapshot # <<>> =>
       /\ pc' \notin {"progress", "caller"} =>
            /\ snapshot'[1].value.currentNodeId = snapshot[1].value.currentNodeId
            /\ snapshot'[1].value.totalNodes = snapshot[1].value.totalNodes
       /\ pc' = "caller" =>
            /\ context'[1].progress.currentNodeId = Ctx.progress.currentNodeId
            /\ context'[1].outputs = Ctx.outputs
            /\ context'[1].aborted = Ctx.aborted]_vars

\* C24: clear() puts a context, whatever was done to it before, into the state
\* of a freshly constructed context for the same nodes and execution order, and
\* a second clear() changes nothing.
C24_ClearGivesFreshContext ==
  /\ clear(Ctx) = NewExecutionContext(nodes, executionOrder)
  /\ clear(clear(Ctx)) = clear(Ctx)
  /\ pc = "cleared" => Ctx = NewExecutionContext(nodes, executionOrder)

\* clear() has run on a context that was aborted and held results before: the
\* progress object taken before the clear still lists them.
C24_Witness ==
  /\ pc = "cleared"
  /\ snapshot # <<>>
  /\ snapshot[1].value.completed # <<>>
  /\ snapshot[1].value.failed # <<>>
  /\ Ctx = NewExecutionContext(nodes, executionOrder)

(***************************************************************************)
(* Claims about the levels of TopologicalSort (SortSpec).                  *)
(***************************************************************************)
\* The length of the longest directed path that ends in id, in an acyclic graph.
RECURSIVE LongestPathTo(_, _)
LongestPathTo(id, es) ==
  LET preds == {es[i].source : i \in {j \in 1..Len(es) : es[j].target = id}}
      lens == {LongestPathTo(p, es) : p \in preds}
  IN IF preds = {} THEN 0
     ELSE 1 + CHOOSE m \in lens : \A k \in lens : k <= m

\* C25: on an acyclic graph, the level sort gives a node is the length of the
\* longest directed path from a node without incoming edges to it, whatever the
\* order of the node list and of the edge list.
C25_LevelIsLongestPath ==
  (pc \in {"sorted", "ordered"} /\ WellFormed(nodes, edges)) =>
    \A i \in 1..Len(sortedNodes) :
      sortedNodes[i].level = LongestPathTo(sortedNodes[i].node.id, edges)

\* C is reached by a direct edge from the root A, listed first, and by the path
\* A -> B -> C: sort gives C level 2.
C25_Witness ==
  /\ pc = "sorted"
  /\ Ids(nodes) = <<"C", "B", "A">>
  /\ edges = <<MkEdge("A", "C"), MkEdge("A", "B"), MkEdge("B", "C")>>
  /\ \E i \in 1..Len(sortedNodes) :
       sortedNodes[i].node.id = "C" /\ sortedNodes[i].level = 2

(***************************************************************************)
(* Claims about GraphExecutor, continued (Spec).                           *)
(***************************************************************************)
NodeOf(id) == FindNode(nodes, id)[1]

\* The passthrough result of the node with this id, over the inputs the context
\* resolves for it.
Passthrough(id) == FallbackOutput(NodeOf(id), getNodeInputs(Ctx, id, edges))

\* C26: a node whose type has no registered handler does not fail the pass.
\* Once its onNodeExecute callback has returned, the next callback is
\* onNodeComplete with the passthrough result (the node's data, its resolved
\* inputs, a warning); no onNodeError reports a handler failure for it; when
\* onNodeComplete is invoked the passthrough result is the node's recorded
\* output, without error, and the node is listed in completed and not in
\* failed; and the pass goes on after it: the callback after its onProgress is
\* onNodeExecute for the next node, or onComplete when the node was the last one
\* or abort() was called, and onError only if onProgress threw.
C26_MissingHandlerFallsBack ==
  context # <<>> =>
    \A i \in 1..Len(events) :
      LET e == events[i]
      IN (e.node # None /\ ~HasHandler(NodeOf(e.node))) =>
           /\ (e.cb = "onNodeExecute" /\ i < Len(events)) =>
                \/ events[i + 1] = Event("onNodeComplete", e.node, Passthrough(e.node))
                \/ /\ events[i + 1].cb = "onNodeError"
                   /\ events[i + 1].arg = CallbackThrew("onNodeExecute")
           /\ e.cb = "onNodeError" => IsCallbackError(e.arg)
           /\ e.cb = "onNodeComplete" => e.node \in Range(Ctx.progress.completed)
           /\ (e.cb = "onNodeComplete" /\ i = Len(events)) =>
                /\ e.node \in DOMAIN Ctx.outputs
                /\ Ctx.outputs[e.node].data = Passthrough(e.node)
                /\ Ctx.outputs[e.node].error = NoError
                /\ e.node \notin Range(Ctx.progress.failed)
           /\ (e.cb = "onNodeComplete" /\ i + 2 <= Len(events) /\
               events[i + 1].cb = "onProgress") =>
                \/ /\ events[i + 2].cb = "onNodeExecute"
                   /\ IndexOf(executionOrder, events[i + 2].node) =
                        IndexOf(executionOrder, e.node) + 1
                \/ /\ events[i + 2].cb = "onComplete"
                   /\ \/ isAborted(Ctx)
                      \/ IndexOf(executionOrder, e.node) = Len(executionOrder)
                \/ /\ events[i + 2].cb = "onError"
                   /\ events[i + 2].arg = CallbackThrew("onProgress")

\* A -> B -> C where B has no handler: B completed with the passthrough result
\* over A's output, C ran after it, and the call resolved with all three.
C26_Witness ==
  /\ pc = "idle"
  /\ settled = "resolved"
  /\ edges = <<MkEdge("A", "B"), MkEdge("B", "C")>>
  /\ ~HasHandler(NodeOf("B"))
  /\ \E i \in 1..Len(events) :
       /\ events[i] = Event("onNodeComplete", "B", Passthrough("B"))
       /\ DOMAIN events[i].arg.inputs = {"A"}
       /\ events[i + 2] = Event("onNodeExecute", "C", None)
  /\ Ctx.progress.completed = <<"A", "B", "C">>
  /\ DOMAIN returned = {"A", "B", "C"}

\* How the accepted call ended, read from its callbacks and its error.
Outcome ==
  CASE settled = "resolved" /\ abortCall = NoAbort -> "completed"
    [] settled = "resolved" /\ abortCall # NoAbort -> "aborted"
    [] settled = "rejected" /\ pendingErr.kind = "Graph validation failed" -> "invalid"
    [] settled = "rejected" /\ IsHandlerError(pendingErr) -> "node failed"
    [] settled = "rejected" /\ IsCallbackError(pendingErr) -> "callback threw"
    [] OTHER -> "none"

\* C27: isRunning() is true exactly from the acceptance of an execute call to
\* its settlement; once the call has settled, however it ended, isRunning() is
\* false, the executor is idle and the guard of execute (isExecuting unset)
\* lets the next call in.
C27_RunningUntilSettled ==
  /\ isRunning <=> settled = "pending"
  /\ settled \in {"resolved", "rejected"} =>
       /\ Outcome \in {"completed", "aborted", "invalid", "node failed", "callback threw"}
       /\ ~isRunning
       /\ pc = "idle"
       /\ ~isExecuting

\* A call that ended because a callback threw: the executor is idle again.
C27_Witness ==
  /\ Outcome = "callback threw"
  /\ ~isRunning
  /\ pc = "idle"
  /\ events[Len(events)] = Event("onError", None, pendingErr)

\* The other ways a call can end; each is a reachable state.
EndedCompleted == Outcome = "completed" /\ ~isRunning
EndedAborted == Outcome = "aborted" /\ ~isRunning
EndedInvalid == Outcome = "invalid" /\ ~isRunning
EndedNodeFailed == Outcome = "node failed" /\ ~isRunning

\* C28: a node failure preserves all prior results.  In the step in which node
\* k fails, the output of every other node is what it was, completed is what
\* it was, and k is appended to failed with its error as its output's error;
\* and from then until the next accepted call the context that getContext()
\* returns keeps those outputs and lists.
C28_FailurePreservesPriorResults ==
  /\ [][(getContext # <<>> /\ pc # "onNodeError" /\ pc' = "onNodeError") =>
          /\ \A id \in DOMAIN Ctx.outputs \ {CurId} :
               /\ id \in DOMAIN getContext'[1].outputs
               /\ getContext'[1].outputs[id] = Ctx.outputs[id]
          /\ getContext'[1].progress.completed = Ctx.progress.completed
          /\ getContext'[1].progress.failed = Append(Ctx.progress.failed, CurId)
          /\ getContext'[1].outputs[CurId].error = pendingErr'
          /\ pendingErr' # NoError]_vars
  /\ [][(getContext # <<>> /\ Ctx.progress.failed # <<>> /\ ~(~isExecuting /\ isExecuting')) =>
          /\ getContext'[1].outputs = Ctx.outputs
          /\ getContext'[1].progress = Ctx.progress]_vars

\* C failed after A and B completed: the call was rejected, and the context
\* still holds the outputs of A and B.
C28_Witness ==
  /\ pc = "idle"
  /\ settled = "rejected"
  /\ IsHandlerError(pendingErr)
  /\ Ctx.progress.completed = <<"A", "B">>
  /\ Ctx.progress.failed = <<"C">>
  /\ Ctx.outputs["A"].data = HandlerResult(NodeOf("A"), "x")
  /\ Ctx.outputs["A"].error = NoError
  /\ Ctx.outputs["B"].error = NoError
  /\ Ctx.outputs["C"].error = pendingErr

(***************************************************************************)
(* Claims about reusing one executor (ReuseSpec).                          *)
(***************************************************************************)
\* C29: every accepted execute call that passes validation runs on a fresh
\* context.  At its first callback the context has no outputs, no completed
\* or failed node, aborted unset and the whole execution order in remaining,
\* whatever context the executor held before; the progress object of the
\* previous context is left as it was; and while the pass is in flight its
\* context is aborted only by an abort() issued during that pass.
C29_FreshContextPerPass ==
  /\ [][(~isExecuting /\ isExecuting' /\ validation'[1].valid) =>
          /\ getContext'[1].outputs = EmptyMap
          /\ ~isAborted(getContext'[1])
          /\ getContext'[1].progress.completed = <<>>
          /\ getContext'[1].progress.failed = <<>>
          /\ getContext'[1].progress.remaining = executionOrder'
          /\ getContext'[1].progress.totalNodes = Len(nodes)
          /\ abortCall' = NoAbort
          /\ snapshot # <<>> => /\ snapshot'[1].value = snapshot[1].value
                                /\ ~snapshot'[1].shared]_vars
  /\ [][(isExecuting /\ snapshot # <<>>) => snapshot' = snapshot]_vars
  /\ []((isExecuting /\ getContext # <<>> /\ validation[1].valid /\ isAborted(Ctx)) =>
          (abortCall # NoAbort /\ abortCall.at # "idle"))

\* A pass is in flight on a fresh context, after a pass on the same executor
\* that stopped early with a completed node and nothing failed, as an aborted
\* pass does: the caller still holds that pass's progress.
C29_Witness ==
  /\ isExecuting
  /\ pc = "awaitHandler"
  /\ cur = 1
  /\ snapshot # <<>>
  /\ ~snapshot[1].shared
  /\ snapshot[1].value.completed # <<>>
  /\ snapshot[1].value.failed = <<>>
  /\ snapshot[1].value.remaining # <<>>
  /\ Ctx.outputs = EmptyMap
  /\ ~isAborted(Ctx)
  /\ Ctx.progress.completed = <<>>
  /\ Ctx.progress.remaining = executionOrder

\* abort() was called after a pass had ended: the context the next call will
\* replace is aborted.
AbortedBetweenPasses ==
  /\ pc = "idle"
  /\ getContext # <<>>
  /\ isAborted(Ctx)
  /\ abortCall.at = "idle"

(***************************************************************************)
(* Claims about ExecutionStore (StoreSpec).                                *)
(***************************************************************************)
\* pending -> running -> completed | error, as a rank.
StatusRank(status) ==
  CASE status = "pending" -> 0
    [] status = "running" -> 1
    [] status \in {"completed", "error"} -> 2

NodeStates == store[1].nodeStates

RunningNodes == {id \in DOMAIN NodeStates : NodeStates[id] = "running"}

\* C30: nodeStates follows pending -> running -> completed | error.  While the
\* pass of the executor stays in flight, no step removes the status of a node
\* or sets it back to an earlier one, and a completed or failed node keeps its
\* status; and at most one node is running at any time.
C30_NodeStatusOnlyAdvances ==
  /\ [][(isExecuting /\ isExecuting') =>
          \A id \in DOMAIN NodeStates :
            /\ id \in DOMAIN store'[1].nodeStates
            /\ StatusRank(store'[1].nodeStates[id]) >= StatusRank(NodeStates[id])
            /\ StatusRank(NodeStates[id]) = 2 =>
                 store'[1].nodeStates[id] = NodeStates[id]]_vars
  /\ [](Cardinality(RunningNodes) <= 1)

\* The part of C30 that holds: at most one node is running.
AtMostOneRunning == Cardinality(RunningNodes) <= 1

\* The status of a node only advances as long as the store itself says that it
\* is running, that is until abortExecution.
StatusAdvancesWhileStoreRunning ==
  [][(store[1].isRunning /\ store'[1].isRunning) =>
       \A id \in DOMAIN NodeStates :
         /\ id \in DOMAIN store'[1].nodeStates
         /\ StatusRank(store'[1].nodeStates[id]) >= StatusRank(NodeStates[id])]_vars

(***************************************************************************)
(* Claims about the progress lists of a pass (Spec).                       *)
(***************************************************************************)
\* completed, failed and remaining partition the execution order, and their
\* lengths add up to totalNodes.
ProgressPartitionsOrder ==
  LET p == Ctx.progress
  IN /\ Range(p.completed) \cap Range(p.failed) = {}
     /\ Range(p.completed) \cap Range(p.remaining) = {}
     /\ Range(p.failed) \cap Range(p.remaining) = {}
     /\ Range(p.completed) \cup Range(p.failed) \cup Range(p.remaining) =
          Range(Ctx.executionOrder)
     /\ Len(p.completed) + Len(p.failed) + Len(p.remaining) = p.totalNodes

\* C31: in every state of a context that execute drives, completed, failed and
\* remaining are pairwise disjoint, their union is the execution order, and
\* their lengths add up to totalNodes.
C31_ProgressListsPartitionOrder ==
  context # <<>> => ProgressPartitionsOrder

\* The same as long as no callback has thrown.
ProgressPartitionUnlessCallbackThrows ==
  (context # <<>> /\ ~CallbackHasThrown) => ProgressPartitionsOrder

\* C32: for the accepted call, onError is invoked at most once; exactly once
\* when the call has rejected, and not at all when it has resolved.
C32_OnErrorAtMostOnce ==
  /\ Count(events, "onError") <= 1
  /\ settled = "rejected" => Count(events, "onError") = 1
  /\ settled = "resolved" => Count(events, "onError") = 0

\* The same for a call whose graph passed validation.
OnErrorOnceOnValidGraph ==
  (validation # <<>> /\ validation[1].valid) =>
    /\ Count(events, "onError") <= 1
    /\ settled = "rejected" => Count(events, "onError") = 1
    /\ settled = "resolved" => Count(events, "onError") = 0

(***************************************************************************)
(* Claims about input resolution, continued (ContextSpec).                 *)
(***************************************************************************)
\* C33: no upstream output is lost in input resolution: for every incoming edge
\* of the node asked for whose source completed without error, the mapping
\* returned by getNodeInputs holds that source's data under some key, whatever
\* handles the incoming edges carry.
C33_NoUpstreamOutputLost ==
  pc = "inputs" =>
    \A i \in SuccessfulIncoming :
      \E k \in DOMAIN inputs : inputs[k] = Ctx.outputs[edges[i].source].data

\* What the mapping does hold: under each key the data of the last incoming
\* edge, in the order of the edge list, that resolves to this key and has a
\* successful source; so a source is lost only to a later edge with its key.
LastEdgeOfKeyWins ==
  pc = "inputs" =>
    \A i \in SuccessfulIncoming :
      LET last == CHOOSE j \in SuccessfulIncoming :
                    /\ InputKey(edges[j]) = InputKey(edges[i])
                    /\ \A m \in SuccessfulIncoming :
                         InputKey(edges[m]) = InputKey(edges[i]) => m <= j
      IN inputs[InputKey(edges[i])] = Ctx.outputs[edges[last].source].data

(***************************************************************************)
(* Claims about ExecutionEngine (EngineSpec).                              *)
(***************************************************************************)
\* executeWorkflow has returned from its node loop, not from its outer catch.
EngineRanNodes ==
  /\ engine # <<>>
  /\ Eng.pc = "returned"
  /\ Eng.i > 0

\* The entries of errors for a node id.
EngineErrorsOf(id) == {k \in 1..Len(Eng.errors) : Eng.errors[k].nodeId = id}

\* C34: executeWorkflow does not stop at a failing node: when it returns from
\* the node loop, every node of the order has been attempted and has status
\* 'success' or 'error', a node has status 'error' exactly when it has an
\* entry in errors, no node has two entries, and success is true exactly when
\* errors is empty.
C34_ContinuesPastFailures ==
  EngineRanNodes =>
    /\ \A k \in 1..Len(Eng.order) :
         FindNode(nodes, Eng.order[k]) # <<>> =>
           /\ Eng.order[k] \in DOMAIN Eng.nodeResults
           /\ Eng.nodeResults[Eng.order[k]].status \in {"success", "error"}
           /\ Eng.nodeResults[Eng.order[k]].status = "error" <=>
                EngineErrorsOf(Eng.order[k]) # {}
           /\ Cardinality(EngineErrorsOf(Eng.order[k])) <= 1
    /\ Eng.result[1].success <=> (Eng.errors = <<>>)

\* What holds whatever a handler rejects with: every node of the order has
\* been attempted, a node with status 'error' has its entry in errors, a node
\* with an entry in errors has no status 'success', no node has two entries,
\* and success is true exactly when errors is empty.
EngineAttemptsEveryNode ==
  EngineRanNodes =>
    /\ \A k \in 1..Len(Eng.order) :
         FindNode(nodes, Eng.order[k]) # <<>> =>
           /\ Eng.order[k] \in DOMAIN Eng.nodeResults
           /\ Eng.nodeResults[Eng.order[k]].status = "error" =>
                EngineErrorsOf(Eng.order[k]) # {}
           /\ EngineErrorsOf(Eng.order[k]) # {} =>
                Eng.nodeResults[Eng.order[k]].status \in {"error", "running"}
           /\ Cardinality(EngineErrorsOf(Eng.order[k])) <= 1
    /\ Eng.result[1].success <=> (Eng.errors = <<>>)

\* getExecutionOrder is in its queue loop.
EngineOrdering == engine # <<>> /\ Eng.pc = "ordering"

\* C35: getExecutionOrder terminates for every node and edge set and every
\* entryNodeId: its queue loop is always left, and the order it returns to the
\* node loop holds no node id twice.
C35_ExecutionOrderTerminates ==
  /\ EngineOrdering ~> ~EngineOrdering
  /\ [](engine # <<>> /\ Eng.pc = "loop" => Distinct(Eng.order))

\* A queue loop that ends has stayed within the entries of order and queue
\* that are followed.
EngineLoopEndsWithinBounds ==
  (engine # <<>> /\ Eng.pc \in {"loop", "node", "returned"}) => Eng.beyondBounds = 0

\* The queue loop is left when no entryNodeId is given or the graph is acyclic.
OrderingEndsWithoutEntryOrCycle ==
  (EngineOrdering /\ (Eng.entry = None \/ ~HasDirectedCycle(edges))) ~> ~EngineOrdering

\* The order built so far holds no id twice when no entryNodeId is given or
\* the graph is acyclic.
OrderDistinctWithoutEntryOrCycle ==
  (engine # <<>> /\ (Eng.entry = None \/ ~HasDirectedCycle(edges))) => Distinct(Eng.order)

\* executeWorkflow has returned the cycle failure: success false, the single
\* error of 'system', and no node executed.
EngineCycleFailure ==
  /\ Eng.result[1].success = FALSE
  /\ Eng.result[1].errors = <<[nodeId |-> "system", message |-> "Cycle detected in workflow graph"]>>
  /\ Eng.nodeResults = EmptyMap

\* C36: on a graph without dangling edges, with or without an entryNodeId,
\* executeWorkflow returns the cycle failure if and only if the graph holds a
\* directed cycle.
C36_CycleErrorIffCycle ==
  (engine # <<>> /\ Eng.pc = "returned" /\ NoDanglingEdge(nodes, edges)) =>
    (EngineCycleFailure <=> HasDirectedCycle(edges))

\* The same for the calls without entryNodeId.
CycleErrorIffCycleWithoutEntry ==
  (engine # <<>> /\ Eng.pc = "returned" /\ NoDanglingEdge(nodes, edges)
     /\ Eng.entry = None) =>
    (EngineCycleFailure <=> HasDirectedCycle(edges))

\* With an entryNodeId the cycle failure is returned exactly when the queue
\* loop ended before the order was as long as the node list.
CycleErrorIffOrderShort ==
  (engine # <<>> /\ Eng.pc = "returned") =>
    (EngineCycleFailure <=> Len(Eng.order) < Len(nodes))

(***************************************************************************)
(* Claims about ExecutionStore, continued (StoreSpec).                     *)
(***************************************************************************)
\* C37: isRunning agrees with the executor: whenever the executor has a pass
\* in flight the store's isRunning is true, and no step in which executeGraph
\* starts, the store going from not running to running with its state reset,
\* is taken while a pass is in flight.
C37_StoreRunningWhilePassInFlight ==
  /\ [](isExecuting => store[1].isRunning)
  /\ [][(~store[1].isRunning /\ store'[1].isRunning) => ~isExecuting]_vars

\* isRunning is false during a pass only after abortExecution: the context of
\* the pass is aborted then.
StoreRunningUntilAborted ==
  (isExecuting /\ ~store[1].isRunning) => (context # <<>> /\ isAborted(Ctx))

\* When the executor is idle and the call settled, the store is not running.
StoreIdleWhenExecutorIdle ==
  (~isExecuting /\ settled # "pending") => ~store[1].isRunning

\* C38: getExecutionStatus() returns 'completed' only if every node of the
\* executed graph has status 'completed' in nodeStates.
C38_CompletedMeansAllCompleted ==
  getExecutionStatus(store[1]) = "completed" =>
    \A id \in IdSet(nodes) :
      id \in DOMAIN NodeStates /\ NodeStates[id] = "completed"

\* 'completed' is reported only when onComplete was invoked and the store is
\* not running, and then no node has status 'error'.
CompletedMeansOnCompleteInvoked ==
  getExecutionStatus(store[1]) = "completed" =>
    /\ Count(events, "onComplete") >= 1
    /\ ~store[1].isRunning
    /\ \A id \in DOMAIN NodeStates : NodeStates[id] # "error"

\* Without abort and abortExecution, 'completed' means that every node
\* completed.
CompletedWithoutAbortMeansAllCompleted ==
  (getExecutionStatus(store[1]) = "completed" /\ abortCall = NoAbort) =>
    \A id \in IdSet(nodes) :
      id \in DOMAIN NodeStates /\ NodeStates[id] = "completed"

(***************************************************************************)
(* Claims about TriggerSystem (TriggerSpec).                               *)
(***************************************************************************)
\* The ids of the executions a step appends to the history.
ExecutedInStep ==
  {triggerSystem'[1].executionHistory[k].triggerId :
     k \in (Len(TS.executionHistory) + 1)..Len(triggerSystem'[1].executionHistory)}

\* C39: a trigger is executed only while it is registered and its enabled
\* flag is true: every execution a step appends to executionHistory is of an
\* id that is registered with enabled true when the step is taken.
C39_ExecutesOnlyEnabledTriggers ==
  [][\A id \in ExecutedInStep :
       id \in DOMAIN TS.triggers /\ TS.triggers[id].enabled]_vars

\* A trigger is executed only while it is registered.
ExecutesOnlyRegisteredTriggers ==
  [][\A id \in ExecutedInStep : id \in DOMAIN TS.triggers]_vars

\* disableTrigger, unregisterTrigger and shutdown leave no pending timer of the
\* id: the pending timer of a trigger that is not enabled is one that was set
\* for an earlier trigger object of the id.
PendingTimerOfDisabledIsStale ==
  \A id \in DOMAIN TS.timers :
    TS.timers[id].pending =>
      /\ id \in DOMAIN TS.triggers
      /\ ~TS.triggers[id].enabled => ~TS.timers[id].registered

(***************************************************************************)
(* Claims about the level groups of TopologicalSort (SortSpec).            *)
(***************************************************************************)
\* The level sort gave the node of this id.
LevelOf(id) ==
  sortedNodes[CHOOSE i \in 1..Len(sortedNodes) : sortedNodes[i].node.id = id].level

\* The ids of the nodes of a level group.
GroupIds(level) == {levelMap[1][level][i].id : i \in 1..Len(levelMap[1][level])}

\* C40: in the output of sort on an acyclic graph every edge u -> v has
\* level(u) < level(v), so no edge connects two nodes of one level, and the
\* groups of groupByLevel hold only mutually independent nodes: none of a
\* group is reached from another of the group.
C40_EdgesAscendLevels ==
  (pc = "grouped" /\ WellFormed(nodes, edges)) =>
    /\ \A i \in 1..Len(edges) : LevelOf(edges[i].source) < LevelOf(edges[i].target)
    /\ \A level \in DOMAIN levelMap[1] :
         /\ \A id \in GroupIds(level) : LevelOf(id) = level
         /\ \A a, b \in GroupIds(level) : b \notin Descendants(a, edges)
    /\ UNION {GroupIds(level) : level \in DOMAIN levelMap[1]} = IdSet(nodes)

\* B and C both follow A and share level 1, with no edge between them.
C40_Witness ==
  /\ pc = "grouped"
  /\ WellFormed(nodes, edges)
  /\ edges = <<MkEdge("A", "B"), MkEdge("A", "C")>>
  /\ 1 \in DOMAIN levelMap[1]
  /\ GroupIds(1) = {"B", "C"}
  /\ GroupIds(0) = {"A"}

====
